---- MODULE Spec2Model ----
(***************************************************************************)
(* Verification model of the UDP audio streaming engine                    *)
(* (Custom UDP Configuration/Python).                                      *)
(*                                                                         *)
(* Part 1  receiver_zero_loss.py, class ZeroLossUDPReceiver: the receive   *)
(*         thread (receive_packets) and the jitter-buffer thread           *)
(*         (process_jitter_buffer) run concurrently on the shared          *)
(*         attributes jitter_buffer and expected_packet, without a lock.   *)
(*         One action per step between two accesses of shared state.       *)
(* Part 2  reciever.py, UDPReceiver.receive_packets: the sequence tracker  *)
(*         with its duplicate-detection set received_sequences.            *)
(* Part 3  the wire framing: struct.pack('!LQL') of the senders and        *)
(*         UDPReceiver.parse_udp_packet.                                   *)
(*                                                                         *)
(* Every specification below runs one part; the variables of the other     *)
(* parts keep their initial values.                                        *)
(***************************************************************************)
EXTENDS Integers, Sequences, FiniteSets, Bags, TLC

\* ------------------------------------------------------------------ bounds
\* Sequence numbers 0..MaxSeq are carried by the datagrams of the unscripted
\* network, which delivers at most MaxArrivals datagrams in one behaviour.
MaxSeq == 4
MaxArrivals == 5
\* Cap of expected_packet (the code's counter is an unbounded Python int).
MaxExpected == 28
\* SpecLoss: the sender emits sequences 1..LossN.
LossN == 6
\* SpecTracker: the sender emits sequences 0..TrackerPackets-1, and the
\* network repeats at most TrackerDuplicates datagrams.
TrackerPackets == 1003
TrackerDuplicates == 1
\* SpecCodec: payloads of at most MaxPayloadLen bytes.
MaxPayloadLen == 2

\* --------------------------------------------------------- program constants
\* receiver_zero_loss.py
frame_duration == 20
max_jitter_buffer == 10
min_jitter_buffer == 3
initial_jitter_buffer_size == 5
playback_queue_maxsize == 20
\* reciever.py; max_queue_size is the default of config audio.buffer_frames,
\* which __init__ assigns last
packet_header_size == 16
max_queue_size == 10
cleanup_threshold == 1000
cleanup_window == 500

\* ------------------------------------------------------------------- state
VARIABLES
    \* --- Part 1: ZeroLossUDPReceiver attributes
    jitter_buffer,        \* dict: packet_count -> opus_data
    jitter_buffer_size,
    expected_packet,
    last_played_packet,
    playback_queue,       \* queue.Queue(maxsize=20) of audio frames
    packets_received,
    packets_lost,
    packets_late,
    packets_duplicate,
    \* control state of the two threads
    rx_pc,                \* receive_packets: "recvfrom" | "order" | "admit"
    rx_packet,            \* the datagram receive_packets is handling
    jb_pc,                \* process_jitter_buffer: "check" | "release" |
                          \*   "missing" | "advance" | "adapt"
    \* environment
    script,               \* scripted network: the datagrams in arrival order
    \* history, written but never read by the program's steps
    slot_log,             \* one entry per frame popped / slot conceded
    admitted,             \* sequence numbers ever inserted into jitter_buffer
    reorder,              \* n inserted while expected_packet <= n, after n+1
    rx_copy_of_released,  \* rx_packet arrived after its sequence was released
    rx_seen,              \* <<packets_late, packets_duplicate>> at its arrival
    \* --- Part 2: UDPReceiver (reciever.py) sequence tracker
    received_sequences,
    last_sequence,        \* <<>> is None, <<n>> is n
    duplicate_packets,
    out_of_order_packets,
    lost_packets,
    self_packet_count,    \* self.packet_count
    audio_queue,          \* deque(maxlen=20), kept below max_queue_size
    payloads_decode,      \* environment: the decoder accepts this stream
    next_fresh,           \* environment: next sequence number the sender emits
    \* --- Part 3: wire framing
    codec_pc,             \* "idle" | "input" | "packed" | "parsed"
    codec_in,             \* what the sender frames
    codec_packet,         \* the datagram, a sequence of bytes
    codec_out,            \* what parse_udp_packet returns
    \* --- Part 4: UDPAudioReceiver (receiver.py), zero-loss header check
    zl_parse_out,         \* what the header check of receiver_zero_loss.py
                          \*   extracts from codec_packet, Pending before
    rcv_loop,             \* receive_packets of receiver.py: "running"|"exited"
    rcv_last_sequence,    \* -1 before the first packet
    rcv_lost_packets,
    rcv_audio_queue,      \* list of decoded frames
    rcv_packet_count,
    rcv_log,              \* history: one entry per loop iteration
    \* --- Part 5: UDPReceiver.enhanced_receive_packets / process_packet
    enh_packets_received, \* self.packets_received
    enh_buffer_overruns,  \* self.buffer_overruns
    enh_handed,           \* history: the payloads handed to decode_float
    \* --- Part 6: UltraLowLatencyUDPSender (sender.py); times in ticks of 10 ms
    sn_now,               \* environment: time.perf_counter()
    sn_pc,                \* audio_callback: "off" | "idle" | "loop" | "sending"
    sn_audio_buffer,      \* buffered audio, in frames
    sn_buffer_frames,     \* history: capture times of the buffered frames, oldest first
    sn_next_send_time,    \* 0 is the unset value 0.0
    sn_packet_count,
    sn_packets_sent,
    sn_send_errors,
    sn_timing_errors,
    sn_buffer_underruns,
    sw_retries,           \* send_with_retry: the parameter retries
    sw_attempt,           \* send_with_retry: sendto calls made for this packet
    sw_result,            \* send_with_retry: "none" | "True" | "False"
    sn_first_send_time,   \* history: the value next_send_time was first set to
    sn_attempted,         \* history: frames handed to send_with_retry so far
    sn_frame,             \* history: number of the frame being sent
    sn_wire,              \* history: frames that reached the socket
    sn_wire_seqs,         \* history: sequence numbers that reached the socket, in order
    sn_dropped,           \* history: frames send_with_retry gave up on
    sw_errors_before,     \* history: send_errors when send_with_retry was called
    \* --- Part 7: ZeroLossUDPSender (sender_zero_loss.py); times in ticks of 10 ms
    tz_now,               \* environment: time.time()
    tz_pc,                \* transmission_thread: "off" | "new" | "running"
    tz_audio_queue,       \* queue.Queue(maxsize=5) of captured frames
    tz_captured,          \* environment: frames the capture source delivered
    tz_next_send_time,    \* 0 is the unset value 0.0
    tz_packet_count,
    tz_packets_sent,
    tz_send_errors,
    tz_timing_errors,
    tz_start,             \* history: next_send_time set at thread start
    tz_attempted,         \* history: calls of send_frame so far
    tz_log,               \* history: one record per call of send_frame
    tz_cb_pc,             \* audio_callback: "idle", "full" (put_nowait raised Full) or "refill"
    tz_cb_block,          \* the block audio_callback is offering, 0 if none
    tz_cb_dropped,        \* history: blocks audio_callback returned without queueing
    \* --- Part 8: render callbacks
    zl_buffer_underruns,  \* receiver_zero_loss.py: self.buffer_underruns
    zl_outdata,           \* receiver_zero_loss.py: the block the last call returned
    rc_buffer_underruns,  \* reciever.py: self.buffer_underruns
    rc_last_audio_frame,  \* reciever.py: self.last_audio_frame
    rc_outdata,           \* reciever.py: the block the last call returned
    zl_calls,             \* history: calls of the callback so far
    rc_calls,
    zl_found_empty,       \* history: the last call found the queue empty
    rc_found_empty,
    zl_underruns_before,  \* history: buffer_underruns when the last call began
    rc_underruns_before,
    \* --- Part 9: stopping a stream, one entry per program
    lc_flag,              \* self.receiving / self.streaming
    lc_sock,              \* "open" | "closed"
    lc_stream,            \* the audio stream: "open" | "closed"
    lc_main,              \* statements of the stop routine already executed
    lc_thread,             \* per worker thread: "running" | "exited"
    \* --- Part 10: sessions
    zl_receiving,         \* receiver_zero_loss.py: self.receiving
    zl_sessions,          \* history: calls of start_receiving so far
    sn_sessions,           \* history: calls of start_streaming (sender.py) so far
    cg_now,               \* time.perf_counter() of the congestion part, in ticks of 10 ms
    cg_pc,                \* "timing": about to call adaptive_send_timing; "send": about to send
    cg_phase,             \* the network: "clear", "congested" or "cleared"
    cg_send_timestamps,   \* self.send_timestamps, deque(maxlen=100)
    cg_network_congestion_events,  \* self.network_congestion_events
    cg_flagged,           \* what the latest detect_network_congestion returned
    cg_recorded,          \* history: every timestamp recorded by send_with_retry
    cg_events_before,     \* history: network_congestion_events before the latest call
    cg_adaptive_delay,    \* self.adaptive_delay, in picoseconds
    cg_congestion_detected,  \* self.congestion_detected
    cg_last_congestion_time, \* self.last_congestion_time, in ticks
    cg_budget,            \* sends left in this run
    cg_slow_budget,       \* slow sends left in this run
    cg_last_flagged_at,   \* history: time of the latest call that detected congestion, -1 if none
    cg_delay_before,       \* history: adaptive_delay before the latest call
    hl_flag,              \* self.receiving (receiver_zero_loss.py), self.streaming (sender_zero_loss.py)
    hl_sock,              \* the socket of each of the two programs: "open" or "closed"
    hl_pc,                \* each loop: "test" (at its while), "body" or "exited"
    hl_branch,            \* history: the way each loop last went through its body
    hl_after,              \* history: passes each loop completed after its flag was cleared
    \* --- Part 13: packet_count and expected_packet close to 2^32
    wr_sender,            \* which program numbers the packets
    wr_packet_count,      \* its packet_count
    wr_attempts,          \* history: frames it was asked to send
    wr_wire,              \* history: the packet_count fields handed to sendto
    wr_delivered,         \* datagrams of wr_wire that recvfrom has returned
    wr_expected_packet,
    wr_jitter_buffer,     \* the keys of the dict
    wr_jitter_buffer_size,
    wr_packets_late,
    wr_released           \* history: the packets process_jitter_buffer took out

zl_vars == <<jitter_buffer, jitter_buffer_size, expected_packet,
             last_played_packet, playback_queue, packets_received,
             packets_lost, packets_late, packets_duplicate,
             rx_pc, rx_packet, jb_pc, script,
             slot_log, admitted, reorder, rx_copy_of_released, rx_seen>>

tracker_vars == <<received_sequences, last_sequence, duplicate_packets,
                  out_of_order_packets, lost_packets, self_packet_count,
                  audio_queue, payloads_decode, next_fresh>>

codec_vars == <<codec_pc, codec_in, codec_packet, codec_out>>

\* Part 4: UDPAudioReceiver (receiver.py) and the header check of
\* ZeroLossUDPReceiver.receive_packets
rcv_vars == <<zl_parse_out, rcv_loop, rcv_last_sequence, rcv_lost_packets,
              rcv_audio_queue, rcv_packet_count, rcv_log>>

\* Part 5: the live receive path of reciever.py (enhanced_receive_packets)
enh_vars == <<enh_packets_received, enh_buffer_overruns, enh_handed>>

\* Part 6: UltraLowLatencyUDPSender (sender.py)
sn_vars == <<sn_now, sn_pc, sn_audio_buffer, sn_buffer_frames, sn_next_send_time,
             sn_packet_count, sn_packets_sent, sn_send_errors,
             sn_timing_errors, sn_buffer_underruns,
             sw_retries, sw_attempt, sw_result,
             sn_first_send_time, sn_attempted, sn_frame, sn_wire, sn_wire_seqs, sn_dropped,
             sw_errors_before>>

\* Part 7: ZeroLossUDPSender (sender_zero_loss.py)
tz_vars == <<tz_now, tz_pc, tz_audio_queue, tz_captured, tz_next_send_time,
             tz_packet_count, tz_packets_sent, tz_send_errors,
             tz_timing_errors, tz_start, tz_attempted, tz_log,
             tz_cb_pc, tz_cb_block, tz_cb_dropped>>

\* Part 8: the render callbacks of receiver_zero_loss.py and reciever.py
cb_vars == <<zl_buffer_underruns, zl_outdata, rc_buffer_underruns,
             rc_last_audio_frame, rc_outdata, zl_calls, rc_calls,
             zl_found_empty, rc_found_empty,
             zl_underruns_before, rc_underruns_before>>

\* Part 9: stopping a stream (stop_receiving, cleanup, stop_streaming)
lc_vars == <<lc_flag, lc_sock, lc_stream, lc_main, lc_thread>>

\* Part 10: sessions (start_receiving, start_streaming after a stop)
ss_vars == <<zl_receiving, zl_sessions, sn_sessions>>

\* Part 11: congestion detection of UltraLowLatencyUDPSender (sender.py)
cg_vars == <<cg_now, cg_pc, cg_phase, cg_send_timestamps,
             cg_network_congestion_events, cg_flagged, cg_recorded,
             cg_events_before, cg_adaptive_delay, cg_congestion_detected,
             cg_last_congestion_time, cg_budget, cg_slow_budget,
             cg_last_flagged_at, cg_delay_before>>

\* Part 12: the worker loops and the running flag that ends them
hl_vars == <<hl_flag, hl_sock, hl_pc, hl_branch, hl_after>>

\* Part 13: the sequence counters close to 2^32
wr_vars == <<wr_sender, wr_packet_count, wr_attempts, wr_wire, wr_delivered,
             wr_expected_packet, wr_jitter_buffer, wr_jitter_buffer_size,
             wr_packets_late, wr_released>>

late_vars == <<cb_vars, lc_vars, ss_vars, cg_vars, hl_vars, wr_vars>>

more_vars == <<rcv_vars, enh_vars, sn_vars, tz_vars, late_vars>>

vars == <<zl_vars, tracker_vars, codec_vars, more_vars>>

\* =========================================================================
\* Part 1: receiver_zero_loss.py
\* =========================================================================
Seqs == 0..MaxSeq
\* A datagram that passed the header parse: packet_count and opus_data (the
\* payload the sender encoded for that sequence number).
Dgram(s) == [seq |-> s, payload |-> s]
Datagrams == {Dgram(s) : s \in Seqs}
NoPacket == [seq |-> -1, payload |-> -1]

Len_jitter_buffer == Cardinality(DOMAIN jitter_buffer)

\* dict.pop(key)
DictPop(d, k) == [x \in (DOMAIN d) \ {k} |-> d[x]]
\* d[key] = value
DictSet(d, k, v) == [x \in (DOMAIN d) \cup {k} |-> IF x = k THEN v ELSE d[x]]

\* decode_audio: the decoded frame (zeros when there is no decoder or no
\* data), or None when the decoder raises.
decode_audio(opus_data, decoder_accepts) ==
    IF decoder_accepts
    THEN [kind |-> "decoded", src |-> opus_data]
    ELSE [kind |-> "None", src |-> opus_data]

\* np.zeros((frame_samples, channels)) emitted for missing_packet
SilenceFrame(missing_packet) == [kind |-> "silence", src |-> missing_packet]

\* queue.Queue.put_nowait raises queue.Full at maxsize; both callers pass.
QueueFull == Len(playback_queue) >= playback_queue_maxsize
put_nowait(q, frame) ==
    IF Len(q) >= playback_queue_maxsize THEN q ELSE Append(q, frame)

\* Sequence numbers whose decoded frame was handed to the playback queue.
ReleasedSeqs ==
    {slot_log[i].seq : i \in {j \in 1..Len(slot_log) : slot_log[j].how = "played"}}

\* ZeroLossUDPReceiver.__init__ / start_receiving, with the target depth
InitReceiverWith(depth) ==
    /\ jitter_buffer = <<>>
    /\ jitter_buffer_size = depth
    /\ expected_packet = 1
    /\ last_played_packet = 0
    /\ playback_queue = <<>>
    /\ packets_received = 0
    /\ packets_lost = 0
    /\ packets_late = 0
    /\ packets_duplicate = 0
    /\ rx_pc = "recvfrom"
    /\ rx_packet = NoPacket
    /\ jb_pc = "check"
    /\ slot_log = <<>>
    /\ admitted = {}
    /\ reorder = {}
    /\ rx_copy_of_released = FALSE
    /\ rx_seen = <<0, 0>>

InitReceiver == InitReceiverWith(initial_jitter_buffer_size)

\* ------------------------------------------------ receive thread (rx_thread)
\* sock.recvfrom returned datagram d; header and payload were unpacked.
RxRecv(d) ==
    /\ zl_receiving
    /\ rx_pc = "recvfrom"
    /\ packets_received' = packets_received + 1
    /\ rx_packet' = d
    /\ rx_copy_of_released' = (d.seq \in ReleasedSeqs)
    /\ rx_seen' = <<packets_late, packets_duplicate>>
    /\ rx_pc' = "order"
    /\ UNCHANGED <<jitter_buffer, jitter_buffer_size, expected_packet,
                   last_played_packet, playback_queue, packets_lost,
                   packets_late, packets_duplicate, jb_pc, script,
                   slot_log, admitted, reorder>>
    /\ UNCHANGED <<tracker_vars, codec_vars, more_vars>>

\* Any datagram may arrive: loss, reordering and duplication by the network.
RxRecvAny ==
    /\ packets_received < MaxArrivals
    /\ \E d \in Datagrams : RxRecv(d)

\* The datagrams arrive as the script lists them.
RxRecvScripted ==
    /\ packets_received < Len(script)
    /\ RxRecv(script[packets_received + 1])

\* if packet_count < self.expected_packet
IsLate(packet_count) == packet_count < expected_packet

RxCheckLate ==
    /\ rx_pc = "order"
    /\ IF IsLate(rx_packet.seq)
       THEN /\ packets_late' = packets_late + 1
            /\ rx_pc' = "recvfrom"
       ELSE /\ rx_pc' = "admit"
            /\ UNCHANGED packets_late
    /\ UNCHANGED <<jitter_buffer, jitter_buffer_size, expected_packet,
                   last_played_packet, playback_queue, packets_received,
                   packets_lost, packets_duplicate, rx_packet, jb_pc, script,
                   slot_log, admitted, reorder, rx_copy_of_released, rx_seen>>
    /\ UNCHANGED <<tracker_vars, codec_vars, more_vars>>

\* elif packet_count in self.jitter_buffer: duplicate; else: insert.
\* (The jitter thread never inserts a key, so the membership test and the
\* insertion that follows a negative test act as one step.)
RxAdmit ==
    /\ rx_pc = "admit"
    /\ IF rx_packet.seq \in DOMAIN jitter_buffer
       THEN /\ packets_duplicate' = packets_duplicate + 1
            /\ UNCHANGED <<jitter_buffer, admitted, reorder>>
       ELSE /\ jitter_buffer' = DictSet(jitter_buffer, rx_packet.seq, rx_packet.payload)
            /\ admitted' = admitted \cup {rx_packet.seq}
            /\ reorder' = IF /\ expected_packet <= rx_packet.seq
                             /\ rx_packet.seq + 1 \in admitted
                             /\ rx_packet.seq \notin admitted
                          THEN reorder \cup {rx_packet.seq} ELSE reorder
            /\ UNCHANGED packets_duplicate
    /\ rx_pc' = "recvfrom"
    /\ UNCHANGED <<jitter_buffer_size, expected_packet, last_played_packet,
                   playback_queue, packets_received, packets_lost,
                   packets_late, rx_packet, jb_pc, script, slot_log,
                   rx_copy_of_released, rx_seen>>
    /\ UNCHANGED <<tracker_vars, codec_vars, more_vars>>

\* ------------------------------------------ jitter thread (buffer_thread)
\* if self.expected_packet in self.jitter_buffer
JbCheck ==
    /\ zl_receiving
    /\ jb_pc = "check"
    /\ jb_pc' = IF expected_packet \in DOMAIN jitter_buffer
                THEN "release" ELSE "missing"
    /\ UNCHANGED <<jitter_buffer, jitter_buffer_size, expected_packet,
                   last_played_packet, playback_queue, packets_received,
                   packets_lost, packets_late, packets_duplicate, rx_pc,
                   rx_packet, script, slot_log, admitted, reorder,
                   rx_copy_of_released, rx_seen>>
    /\ UNCHANGED <<tracker_vars, codec_vars, more_vars>>

\* The key the release branch pops: self.expected_packet.
ReleaseKeyOldest ==
    CHOOSE k \in DOMAIN jitter_buffer : \A j \in DOMAIN jitter_buffer : k <= j
ReleaseKey == expected_packet

\* pop, decode_audio, put_nowait, last_played_packet; the decoder, an
\* external collaborator, accepts the payload or raises.
JbRelease ==
    /\ jb_pc = "release"
    /\ \E decoder_accepts \in BOOLEAN :
         LET k == ReleaseKey
             decoded == decode_audio(jitter_buffer[k], decoder_accepts)
         IN  /\ jitter_buffer' = DictPop(jitter_buffer, k)
             /\ IF decoded.kind = "None"
                THEN /\ UNCHANGED <<playback_queue, last_played_packet>>
                     /\ slot_log' = Append(slot_log, [seq |-> k, how |-> "undecodable"])
                ELSE IF QueueFull
                THEN /\ UNCHANGED <<playback_queue, last_played_packet>>
                     /\ slot_log' = Append(slot_log, [seq |-> k, how |-> "queue_full"])
                ELSE /\ playback_queue' = put_nowait(playback_queue, decoded)
                     /\ last_played_packet' = expected_packet
                     /\ slot_log' = Append(slot_log, [seq |-> k, how |-> "played"])
    /\ jb_pc' = "advance"
    /\ UNCHANGED <<jitter_buffer_size, expected_packet, packets_received,
                   packets_lost, packets_late, packets_duplicate, rx_pc,
                   rx_packet, script, admitted, reorder,
                   rx_copy_of_released, rx_seen>>
    /\ UNCHANGED <<tracker_vars, codec_vars, more_vars>>

\* buffer_delay > self.jitter_buffer_size * self.frame_duration / 1000.0,
\* both sides taken in milliseconds.
WaitedAtLeast ==
    Len_jitter_buffer * frame_duration >= jitter_buffer_size * frame_duration
WaitedLongEnough ==
    Len_jitter_buffer * frame_duration > jitter_buffer_size * frame_duration

\* handle_packet_loss(missing_packet)
handle_packet_loss(missing_packet) ==
    /\ playback_queue' = put_nowait(playback_queue, SilenceFrame(missing_packet))
    /\ packets_lost' = packets_lost + 1
    /\ slot_log' = Append(slot_log,
           [seq |-> missing_packet,
            how |-> IF QueueFull THEN "conceded_unqueued" ELSE "concealed"])

\* else branch: conceal the expected packet, or sleep 5 ms
JbMissing ==
    /\ jb_pc = "missing"
    /\ IF WaitedLongEnough
       THEN /\ handle_packet_loss(expected_packet)
            /\ jb_pc' = "advance"
       ELSE /\ jb_pc' = "adapt"
            /\ UNCHANGED <<playback_queue, packets_lost, slot_log>>
    /\ UNCHANGED <<jitter_buffer, jitter_buffer_size, expected_packet,
                   last_played_packet, packets_received, packets_late,
                   packets_duplicate, rx_pc, rx_packet, script, admitted,
                   reorder, rx_copy_of_released, rx_seen>>
    /\ UNCHANGED <<tracker_vars, codec_vars, more_vars>>

\* self.expected_packet += 1
AdvancedExpectedStuck == expected_packet
AdvancedExpected == expected_packet + 1

JbAdvance ==
    /\ jb_pc = "advance"
    /\ expected_packet < MaxExpected
    /\ expected_packet' = AdvancedExpected
    /\ jb_pc' = "adapt"
    /\ UNCHANGED <<jitter_buffer, jitter_buffer_size, last_played_packet,
                   playback_queue, packets_received, packets_lost,
                   packets_late, packets_duplicate, rx_pc, rx_packet, script,
                   slot_log, admitted, reorder, rx_copy_of_released, rx_seen>>
    /\ UNCHANGED <<tracker_vars, codec_vars, more_vars>>

\* Adaptive jitter buffer sizing
AdaptedSizeNoFloor ==
    IF Len_jitter_buffer > jitter_buffer_size
    THEN IF jitter_buffer_size < max_jitter_buffer
         THEN jitter_buffer_size + 1 ELSE jitter_buffer_size
    ELSE IF Len_jitter_buffer = 0 /\ jitter_buffer_size > 0
         THEN jitter_buffer_size - 1
         ELSE jitter_buffer_size

AdaptedSize ==
    IF Len_jitter_buffer > jitter_buffer_size
    THEN IF jitter_buffer_size < max_jitter_buffer
         THEN jitter_buffer_size + 1 ELSE jitter_buffer_size
    ELSE IF Len_jitter_buffer = 0 /\ jitter_buffer_size > min_jitter_buffer
         THEN IF min_jitter_buffer > jitter_buffer_size - 1
              THEN min_jitter_buffer ELSE jitter_buffer_size - 1
         ELSE jitter_buffer_size

JbAdapt ==
    /\ jb_pc = "adapt"
    /\ jitter_buffer_size' = AdaptedSize
    /\ jb_pc' = "check"
    /\ UNCHANGED <<jitter_buffer, expected_packet, last_played_packet,
                   playback_queue, packets_received, packets_lost,
                   packets_late, packets_duplicate, rx_pc, rx_packet, script,
                   slot_log, admitted, reorder, rx_copy_of_released, rx_seen>>
    /\ UNCHANGED <<tracker_vars, codec_vars, more_vars>>

\* =========================================================================
\* Part 2: reciever.py, UDPReceiver.receive_packets
\* =========================================================================
\* UDPReceiver.__init__ sets packet_count and audio_queue. It assigns none of
\* received_sequences, last_sequence and the three counters; they start as
\* the tracker presupposes: the empty set, None and 0.
InitTracker ==
    /\ received_sequences = {}
    /\ last_sequence = <<>>
    /\ duplicate_packets = 0
    /\ out_of_order_packets = 0
    /\ lost_packets = 0
    /\ self_packet_count = 0
    /\ audio_queue = <<>>
    /\ next_fresh = 0

TrackerIdle ==
    /\ InitTracker
    /\ payloads_decode = TRUE

\* Clean up old sequence numbers: keep those within the window of the
\* packet that triggered the cleanup.
Abs(x) == IF x < 0 THEN -x ELSE x
recent_sequences(seen, packet_count) ==
    {seq \in seen : Abs(seq - packet_count) < cleanup_window}

\* with self.queue_lock: append, dropping the oldest frame when full
EnqueueDropOldest(q, frame) ==
    IF Len(q) < max_queue_size THEN Append(q, frame) ELSE Append(Tail(q), frame)

\* Lost-packet accounting against last_sequence + 1
TrackLoss(packet_count) ==
    IF last_sequence = <<>>
    THEN UNCHANGED <<out_of_order_packets, lost_packets>>
    ELSE LET expected_sequence == last_sequence[1] + 1
         IN  IF packet_count = expected_sequence
             THEN UNCHANGED <<out_of_order_packets, lost_packets>>
             ELSE IF packet_count < expected_sequence
             THEN /\ out_of_order_packets' = out_of_order_packets + 1
                  /\ UNCHANGED lost_packets
             ELSE /\ lost_packets' = lost_packets + (packet_count - expected_sequence)
                  /\ UNCHANGED out_of_order_packets

\* if packet_count in self.received_sequences
IsRepeatOfLast(packet_count) ==
    last_sequence # <<>> /\ packet_count = last_sequence[1]
IsDuplicate(packet_count) == packet_count \in received_sequences

\* One iteration of the receive loop on a well-formed datagram.
receive_packets(packet_count) ==
    IF IsDuplicate(packet_count)
    THEN /\ duplicate_packets' = duplicate_packets + 1
         /\ UNCHANGED <<received_sequences, last_sequence, out_of_order_packets,
                        lost_packets, self_packet_count, audio_queue>>
    ELSE /\ TrackLoss(packet_count)
         /\ last_sequence' = <<packet_count>>
         /\ UNCHANGED duplicate_packets
         /\ IF payloads_decode
            THEN /\ audio_queue' = EnqueueDropOldest(audio_queue, packet_count)
                 /\ self_packet_count' = self_packet_count + 1
                 /\ received_sequences' =
                        LET added == received_sequences \cup {packet_count}
                        IN  IF Cardinality(added) > cleanup_threshold
                            THEN recent_sequences(added, packet_count)
                            ELSE added
            ELSE \* except Exception: continue
                 /\ received_sequences' = received_sequences \cup {packet_count}
                 /\ UNCHANGED <<audio_queue, self_packet_count>>

\* The next datagram of the stream arrives.
TrkRecvFresh ==
    /\ next_fresh < TrackerPackets
    /\ receive_packets(next_fresh)
    /\ next_fresh' = next_fresh + 1
    /\ UNCHANGED payloads_decode
    /\ UNCHANGED <<zl_vars, codec_vars, more_vars>>

\* The network delivers the latest datagram a second time.
TrkRecvRepeat ==
    /\ last_sequence # <<>>
    /\ duplicate_packets < TrackerDuplicates
    /\ receive_packets(last_sequence[1])
    /\ UNCHANGED <<payloads_decode, next_fresh>>
    /\ UNCHANGED <<zl_vars, codec_vars, more_vars>>

\* The network delivers, late, the packet numbered 0 that the stream
\* starting at 1 left behind (a delayed first packet, or the first packet
\* of a restarted sender), once StragglerNotBefore packets have been sent.
MaxStragglers == 1
StragglerNotBefore == 997
TrkRecvStraggler ==
    /\ next_fresh > StragglerNotBefore
    /\ 0 \notin received_sequences
    /\ out_of_order_packets < MaxStragglers
    /\ receive_packets(0)
    /\ UNCHANGED <<payloads_decode, next_fresh>>
    /\ UNCHANGED <<zl_vars, codec_vars, more_vars>>

\* The network delivers a second copy of the highest-numbered datagram.
TrkRecvCopyOfHighest ==
    /\ next_fresh > 1
    /\ duplicate_packets < TrackerDuplicates
    /\ out_of_order_packets + lost_packets < MaxStragglers + TrackerDuplicates
    /\ receive_packets(next_fresh - 1)
    /\ UNCHANGED <<payloads_decode, next_fresh>>
    /\ UNCHANGED <<zl_vars, codec_vars, more_vars>>

\* Datagrams of the scripted network handled so far (no compaction yet).
TrkHandled == Cardinality(received_sequences) + duplicate_packets

\* The datagrams arrive as the script lists them.
TrkRecvScripted ==
    /\ TrkHandled < Len(script)
    /\ receive_packets(script[TrkHandled + 1].seq)
    /\ UNCHANGED <<payloads_decode, next_fresh>>
    /\ UNCHANGED <<zl_vars, codec_vars, more_vars>>

\* =========================================================================
\* Part 3: wire framing
\* =========================================================================
ByteSamples == {0, 1, 255}
SeqSamples == {0, 1, 255, 256, 65535, 65536, 16777216, 2147483647}
TimestampSamples == {0, 1, 256, 65537, 1000000, 2147483647}
PayloadSamples ==
    UNION {[1..n -> ByteSamples] : n \in 0..MaxPayloadLen}

RECURSIVE BigEndian(_, _)
\* the n bytes of v, most significant first
BigEndian(v, n) ==
    IF n = 0 THEN <<>> ELSE Append(BigEndian(v \div 256, n - 1), v % 256)

RECURSIVE FromBigEndian(_)
FromBigEndian(b) ==
    IF Len(b) = 0 THEN 0
    ELSE FromBigEndian(SubSeq(b, 1, Len(b) - 1)) * 256 + b[Len(b)]

\* struct.pack('!LQL', packet_count, timestamp, opus_length)
PackLQH(packet_count, timestamp, opus_length) ==
    BigEndian(packet_count, 4) \o BigEndian(timestamp, 8)
        \o BigEndian(opus_length, 2)
PackLQL(packet_count, timestamp, opus_length) ==
    BigEndian(packet_count, 4) \o BigEndian(timestamp, 8)
        \o BigEndian(opus_length, 4)

\* struct.unpack('!LQL', header)
UnpackLQL(header) ==
    <<FromBigEndian(SubSeq(header, 1, 4)),
      FromBigEndian(SubSeq(header, 5, 12)),
      FromBigEndian(SubSeq(header, 13, 16))>>

\* header + opus_data
BuildPacket(packet_count, timestamp, opus_data) ==
    PackLQL(packet_count, timestamp, Len(opus_data)) \o opus_data

ParsedNone ==
    [packet_count |-> -1, timestamp |-> -1, opus_length |-> -1, opus_data |-> <<>>]

\* UDPReceiver.parse_udp_packet
parse_udp_packet(packet) ==
    IF Len(packet) < packet_header_size
    THEN ParsedNone
    ELSE LET header == UnpackLQL(SubSeq(packet, 1, packet_header_size))
             opus_length == header[3]
             expected_total_length == packet_header_size + opus_length
         IN  IF Len(packet) # expected_total_length
             THEN ParsedNone
             ELSE [packet_count |-> header[1],
                   timestamp |-> header[2],
                   opus_length |-> opus_length,
                   opus_data |-> SubSeq(packet, packet_header_size + 1,
                                        packet_header_size + opus_length)]

NoInput == [seq |-> 0, ts |-> 0, payload |-> <<>>]

CodecIdle ==
    /\ codec_pc = "idle"
    /\ codec_in = NoInput
    /\ codec_packet = <<>>
    /\ codec_out = ParsedNone

InitCodec ==
    /\ codec_pc = "input"
    /\ codec_in \in [seq : SeqSamples, ts : TimestampSamples, payload : PayloadSamples]
    /\ codec_packet = <<>>
    /\ codec_out = ParsedNone

\* The sender frames one encoded chunk.
SenderPack ==
    /\ codec_pc = "input"
    /\ codec_packet' = BuildPacket(codec_in.seq, codec_in.ts, codec_in.payload)
    /\ codec_pc' = "packed"
    /\ UNCHANGED <<codec_in, codec_out>>
    /\ UNCHANGED <<zl_vars, tracker_vars, more_vars>>

\* The receiver parses the datagram.
ReceiverParse ==
    /\ codec_pc = "packed"
    /\ codec_out' = parse_udp_packet(codec_packet)
    /\ codec_pc' = "parsed"
    /\ UNCHANGED <<codec_in, codec_packet>>
    /\ UNCHANGED <<zl_vars, tracker_vars, more_vars>>

\* =========================================================================
\* Part 6: sender.py, UltraLowLatencyUDPSender: audio_callback and
\* send_with_retry. Time is counted in ticks of 10 ms; the callback body
\* takes no time.
\* =========================================================================
\* frame_interval = opus_frame_duration / 1000 = 20 ms
sn_frame_interval == 2
\* timing_precision = 1 ms, below one tick
sn_timing_precision == 0
\* chunk_size * 10, with chunk_size = opus_frame_samples: ten frames
sn_buffer_cap == 10
\* def send_with_retry(self, packet, retries=3)
default_retries == 3

InitSenderWith(pc, retries) ==
    /\ sn_now = 1
    /\ sn_pc = pc
    /\ sn_audio_buffer = 0
    /\ sn_buffer_frames = <<>>
    /\ sn_next_send_time = 0
    /\ sn_packet_count = 0
    /\ sn_packets_sent = 0
    /\ sn_send_errors = 0
    /\ sn_timing_errors = 0
    /\ sn_buffer_underruns = 0
    /\ sw_retries = retries
    /\ sw_attempt = 0
    /\ sw_result = "none"
    /\ sn_first_send_time = 0
    /\ sn_attempted = 0
    /\ sn_frame = 0
    /\ sn_wire = {}
    /\ sn_wire_seqs = <<>>
    /\ sn_dropped = {}
    /\ sw_errors_before = 0

InitSender == InitSenderWith("idle", default_retries)

\* =========================================================================
\* Part 7: sender_zero_loss.py, ZeroLossUDPSender: audio_callback,
\* send_frame and transmission_thread. Time is counted in ticks of 10 ms.
\* =========================================================================
\* frame_interval = 0.02
tz_frame_interval == 2
\* queue.Queue(maxsize=5)
tz_queue_maxsize == 5

InitZeroLossSenderAt(pc) ==
    /\ tz_now = 1
    /\ tz_pc = pc
    /\ tz_audio_queue = <<>>
    /\ tz_captured = 0
    /\ tz_next_send_time = 0
    /\ tz_packet_count = 0
    /\ tz_packets_sent = 0
    /\ tz_send_errors = 0
    /\ tz_timing_errors = 0
    /\ tz_start = 0
    /\ tz_attempted = 0
    /\ tz_log = <<>>
    /\ tz_cb_pc = "idle"
    /\ tz_cb_block = 0
    /\ tz_cb_dropped = {}

InitZeroLossSender == InitZeroLossSenderAt("new")

\* =========================================================================
\* Part 8: the render callbacks, receiver_zero_loss.py audio_callback and
\* reciever.py audio_callback
\* =========================================================================
\* outdata.fill(0)
ZeroBlock == [kind |-> "zeros", src |-> -1]
\* self.last_audio_frame = None
NoFrame == [kind |-> "None", src |-> -1]

InitCallbacks ==
    /\ zl_buffer_underruns = 0
    /\ zl_outdata = NoFrame
    /\ rc_buffer_underruns = 0
    /\ rc_last_audio_frame = NoFrame
    /\ rc_outdata = NoFrame
    /\ zl_calls = 0
    /\ rc_calls = 0
    /\ zl_found_empty = FALSE
    /\ rc_found_empty = FALSE
    /\ zl_underruns_before = 0
    /\ rc_underruns_before = 0

\* =========================================================================
\* Part 9: stopping a stream. receiver_zero_loss.py stop_receiving,
\* reciever.py cleanup_enhanced and cleanup, receiver.py cleanup,
\* sender_zero_loss.py stop_streaming.
\* =========================================================================
Programs == {"receiver_zero_loss", "reciever", "receiver", "sender_zero_loss"}

\* The worker threads each program starts
Threads(p) ==
    CASE p = "receiver_zero_loss" -> {"rx_thread", "buffer_thread"}
      [] p = "reciever"           -> {"receive_thread"}
      [] p = "receiver"           -> {"receive_thread"}
      [] p = "sender_zero_loss"   -> {"tx_thread"}

\* The threads whose loop calls recvfrom or sendto on self.sock
SocketUsers(p) ==
    CASE p = "receiver_zero_loss" -> {"rx_thread"}
      [] p = "reciever"           -> {"receive_thread"}
      [] p = "receiver"           -> {"receive_thread"}
      [] p = "sender_zero_loss"   -> {"tx_thread"}

\* The statements of each stop routine, in program order
StopSteps(p) ==
    CASE p = "receiver_zero_loss" ->
             <<<<"clear_flag", "">>, <<"stop_stream", "">>, <<"close_sock", "">>,
               <<"join", "rx_thread">>, <<"join", "buffer_thread">>>>
      [] p = "reciever" ->
             <<<<"clear_flag", "">>, <<"join", "receive_thread">>,
               <<"close_sock", "">>>>
      [] p = "receiver" ->
             <<<<"clear_flag", "">>, <<"close_sock", "">>>>
      [] p = "sender_zero_loss" ->
             <<<<"clear_flag", "">>, <<"stop_stream", "">>,
               <<"join", "tx_thread">>, <<"close_sock", "">>>>

\* A stream in progress: flag set, socket and stream open, workers running
InitLifecycle ==
    /\ lc_flag = [p \in Programs |-> TRUE]
    /\ lc_sock = [p \in Programs |-> "open"]
    /\ lc_stream = [p \in Programs |-> "open"]
    /\ lc_main = [p \in Programs |-> 0]
    /\ lc_thread = [p \in Programs |-> [t \in Threads(p) |-> "running"]]

\* A first session is in progress in both programs
InitSessions ==
    /\ zl_receiving = TRUE
    /\ zl_sessions = 1
    /\ sn_sessions = 1

\* Packets sent in one run, and the gap between two sends while the network is
\* congested
MaxCgSends == 103
SlowGap == 7

\* sender.py __init__: network_congestion_events = 0, send_timestamps empty,
\* adaptive_delay = 0.0, congestion_detected = False, last_congestion_time = 0.0;
\* the network starts in `phase` and the run makes up to `sends` sends, up to
\* `slow` of them slow
InitCongestionWith(phase, sends, slow) ==
    /\ cg_now = 0
    /\ cg_pc = "timing"
    /\ cg_phase = phase
    /\ cg_send_timestamps = <<>>
    /\ cg_network_congestion_events = 0
    /\ cg_flagged = FALSE
    /\ cg_recorded = <<>>
    /\ cg_events_before = 0
    /\ cg_adaptive_delay = 0
    /\ cg_congestion_detected = FALSE
    /\ cg_last_congestion_time = 0
    /\ cg_budget = sends
    /\ cg_slow_budget = slow
    /\ cg_last_flagged_at = -1
    /\ cg_delay_before = 0

InitCongestion == InitCongestionWith("clear", MaxCgSends, MaxCgSends)

\* The loops that run until their flag is cleared, and the flag and socket
\* each of them uses
Loops == {"receive_packets", "process_jitter_buffer", "transmission_thread"}

FlagOf(loop) ==
    IF loop = "transmission_thread" THEN "streaming" ELSE "receiving"

Flags == {"receiving", "streaming"}

\* start_receiving / start_streaming have set the flags in `running` and
\* started the threads, each loop being at its `while`; the other program
\* is stopped
InitLoopsOf(running) ==
    /\ hl_flag = [f \in Flags |-> f \in running]
    /\ hl_sock = [f \in Flags |-> IF f \in running THEN "open" ELSE "closed"]
    /\ hl_pc = [l \in Loops |-> IF FlagOf(l) \in running THEN "test" ELSE "exited"]
    /\ hl_branch = [l \in Loops |-> "none"]
    /\ hl_after = [l \in Loops |-> 0]

InitLoops == InitLoopsOf(Flags)

\* ---- Part 13: a Python int as two digits of base 2^16, the high digit
\* unbounded, so that values beyond 2^32 - 1 are what they are in the code
Half == 65536
U32Max == <<Half - 1, Half - 1>>
Succ(v) == IF v[2] = Half - 1 THEN <<v[1] + 1, 0>> ELSE <<v[1], v[2] + 1>>
Less(a, b) == a[1] < b[1] \/ (a[1] = b[1] /\ a[2] < b[2])

\* struct.pack('!LQL', packet_count, ...): the L field takes 0 .. 2^32 - 1 and
\* raises struct.error for anything else
PacksAsL(v) == v[1] < Half

\* Packets still to go before the counter reaches 2^32, and frames followed
WrapLead == 2
MaxWrapSends == 6

\* The stream has run for 2^32 - 1 - WrapLead packets, all of them released.
\* sender_zero_loss.py holds the number it sent last, the others the number
\* they send next.
InitWrapOf(sender) ==
    /\ wr_sender = sender
    /\ wr_packet_count =
           IF sender = "sender_zero_loss"
           THEN <<Half - 1, Half - 1 - WrapLead>>
           ELSE Succ(<<Half - 1, Half - 1 - WrapLead>>)
    /\ wr_attempts = 0
    /\ wr_wire = <<>>
    /\ wr_delivered = 0
    /\ wr_expected_packet = Succ(<<Half - 1, Half - 1 - WrapLead>>)
    /\ wr_jitter_buffer = {}
    /\ wr_jitter_buffer_size = initial_jitter_buffer_size
    /\ wr_packets_late = 0
    /\ wr_released = <<>>

InitWrap == InitWrapOf("sender_zero_loss")

LateIdle ==
    /\ InitWrap
    /\ InitLoops
    /\ InitCongestion
    /\ InitSessions
    /\ InitLifecycle
    /\ InitCallbacks

\* =========================================================================
\* Part 4: receiver.py, UDPAudioReceiver.receive_packets, and the header
\* check at the head of ZeroLossUDPReceiver.receive_packets
\* =========================================================================
Pending == [packet_count |-> -2, timestamp |-> -2, opus_length |-> -2, opus_data |-> <<>>]

Min(a, b) == IF a < b THEN a ELSE b

\* Python slice b[lo:hi] on a byte string, lo and hi counted from 0
Slice(b, lo, hi) == SubSeq(b, lo + 1, Min(hi, Len(b)))

\* receiver_zero_loss.py: len(data) < 16, unpack, len(data) >= 16 + opus_length
zl_parse(data) ==
    IF Len(data) < 16
    THEN ParsedNone
    ELSE LET header == UnpackLQL(Slice(data, 0, 16))
             opus_length == header[3]
         IN  IF Len(data) >= 16 + opus_length
             THEN [packet_count |-> header[1],
                   timestamp |-> header[2],
                   opus_length |-> opus_length,
                   opus_data |-> Slice(data, 16, 16 + opus_length)]
             ELSE ParsedNone

\* The zero-loss receiver reads the datagram under test; a datagram that
\* passes goes on to the ordering test (RxCheckLate, RxAdmit).
ZlParse ==
    /\ codec_pc \in {"packed", "parsed"}
    /\ zl_parse_out = Pending
    /\ zl_parse_out' = zl_parse(codec_packet)
    /\ UNCHANGED <<rcv_loop, rcv_last_sequence, rcv_lost_packets,
                   rcv_audio_queue, rcv_packet_count, rcv_log>>
    /\ UNCHANGED <<zl_vars, tracker_vars, codec_vars, enh_vars, sn_vars, tz_vars,
                   late_vars>>

rcv_queue_size == 10

InitRcv ==
    /\ rcv_loop = "running"
    /\ rcv_last_sequence = -1
    /\ rcv_lost_packets = 0
    /\ rcv_audio_queue = <<>>
    /\ rcv_packet_count = 0
    /\ rcv_log = <<>>

InitEnh ==
    /\ enh_packets_received = 0
    /\ enh_buffer_overruns = 0
    /\ enh_handed = <<>>

MoreIdle ==
    /\ zl_parse_out = Pending
    /\ InitRcv
    /\ InitEnh
    /\ InitSender
    /\ InitZeroLossSender
    /\ LateIdle

\* if len(self.audio_queue) < 10: append, else pop(0) and append
RcvEnqueue(q, frame) ==
    IF Len(q) < rcv_queue_size THEN Append(q, frame) ELSE Append(Tail(q), frame)

\* lost = sequence - expected_sequence, added whenever the two differ
RcvLost(sequence) ==
    IF rcv_last_sequence # -1 /\ sequence # rcv_last_sequence + 1
    THEN rcv_lost_packets + (sequence - (rcv_last_sequence + 1))
    ELSE rcv_lost_packets

\* One iteration of `while self.receiving` on datagram packet; the decoder
\* accepts opus_data or raises, and `except Exception` leaves the loop.
RcvReceive(packet, decoder_accepts) ==
    /\ rcv_loop = "running"
    /\ IF Len(packet) < 16
       THEN /\ rcv_log' = Append(rcv_log, [packet |-> packet, outcome |-> "short",
                                           sequence |-> -1, opus_data |-> <<>>])
            /\ UNCHANGED <<rcv_loop, rcv_last_sequence, rcv_lost_packets,
                           rcv_audio_queue, rcv_packet_count>>
       ELSE LET header == UnpackLQL(Slice(packet, 0, 16))
                sequence == header[1]
                opus_length == header[3]
                opus_data == Slice(packet, 16, 16 + opus_length)
            IN  /\ rcv_lost_packets' = RcvLost(sequence)
                /\ rcv_last_sequence' = sequence
                /\ IF decoder_accepts
                   THEN /\ rcv_audio_queue' = RcvEnqueue(rcv_audio_queue, opus_data)
                        /\ rcv_packet_count' = rcv_packet_count + 1
                        /\ rcv_log' = Append(rcv_log,
                               [packet |-> packet, outcome |-> "decoded",
                                sequence |-> sequence, opus_data |-> opus_data])
                        /\ UNCHANGED rcv_loop
                   ELSE /\ rcv_loop' = "exited"
                        /\ rcv_log' = Append(rcv_log,
                               [packet |-> packet, outcome |-> "decode_error",
                                sequence |-> sequence, opus_data |-> opus_data])
                        /\ UNCHANGED <<rcv_audio_queue, rcv_packet_count>>
    /\ UNCHANGED zl_parse_out
    /\ UNCHANGED <<zl_vars, tracker_vars, codec_vars, enh_vars, sn_vars, tz_vars,
                   late_vars>>

\* Datagrams of the scripted network handled so far.
RcvHandled == Cardinality({i \in 1..Len(rcv_log) : rcv_log[i].outcome # "short"})

\* The datagrams arrive as the script lists them, framed by the sender
\* with a one-byte payload.
RcvReceiveScripted ==
    /\ RcvHandled < Len(script)
    /\ \E decoder_accepts \in BOOLEAN :
          LET d == script[RcvHandled + 1]
          IN  RcvReceive(BuildPacket(d.seq, 0, <<d.payload>>), decoder_accepts)

\* A stray datagram shorter than the header arrives (at most MaxRunts).
MaxRunts == 1
RuntDatagram == <<0, 0, 0>>
RcvReceiveRunt ==
    /\ Len(rcv_log) - RcvHandled < MaxRunts
    /\ RcvReceive(RuntDatagram, TRUE)

\* receiver.py reads the datagram under test.
RcvReceiveUnderTest ==
    /\ codec_pc \in {"packed", "parsed"}
    /\ rcv_log = <<>>
    /\ \E decoder_accepts \in BOOLEAN : RcvReceive(codec_packet, decoder_accepts)

\* =========================================================================
\* Part 5: reciever.py, the receive path start_receiving runs:
\* enhanced_receive_packets -> process_packet
\* =========================================================================
enh_header_skip == 12

\* payload = data[12:]
enh_payload(data) == Slice(data, enh_header_skip, Len(data))

\* process_packet(data, receive_time): what it leaves in audio_queue,
\* buffer_overruns and at the decoder; decode_float returns or raises, and
\* the raise is swallowed by the except of process_packet.
process_packet(data, decoder_accepts) ==
    IF Len(data) < enh_header_skip \/ Len(enh_payload(data)) = 0
    THEN UNCHANGED <<audio_queue, enh_buffer_overruns, enh_handed>>
    ELSE /\ enh_handed' = Append(enh_handed, enh_payload(data))
         /\ IF decoder_accepts
            THEN /\ audio_queue' = EnqueueDropOldest(audio_queue, enh_payload(data))
                 /\ enh_buffer_overruns' =
                        IF Len(audio_queue) < max_queue_size
                        THEN enh_buffer_overruns ELSE enh_buffer_overruns + 1
            ELSE UNCHANGED <<audio_queue, enh_buffer_overruns>>

\* One iteration of enhanced_receive_packets on datagram data.
EnhReceive(data, decoder_accepts) ==
    /\ self_packet_count' = self_packet_count + 1
    /\ enh_packets_received' = enh_packets_received + 1
    /\ process_packet(data, decoder_accepts)
    /\ UNCHANGED <<received_sequences, last_sequence, duplicate_packets,
                   out_of_order_packets, lost_packets, payloads_decode,
                   next_fresh>>
    /\ UNCHANGED <<zl_vars, codec_vars, rcv_vars, sn_vars, tz_vars, late_vars>>

\* The live path reads the datagram the sender built.
EnhReceiveUnderTest ==
    /\ codec_pc = "packed"
    /\ enh_packets_received = 0
    /\ \E decoder_accepts \in BOOLEAN : EnhReceive(codec_packet, decoder_accepts)

\* ------------------------------------------------- sender.py, scheduler
\* The capture source calls audio_callback once per SourcePeriod ticks,
\* each time with one frame (blocksize = chunk_size = opus_frame_samples);
\* the run is followed up to time MaxTime.
SourcePeriod == 1
MaxTime == 24
\* The socket fails at most MaxSendFailures sendto calls in a run.
MaxSendFailures == 7

sn_history == <<sn_first_send_time, sn_attempted, sn_frame, sn_wire, sn_wire_seqs, sn_dropped,
                sw_errors_before>>

\* `self.audio_buffer = self.audio_buffer[excess:]` when the block would take
\* the buffer over chunk_size * 10, then np.vstack([self.audio_buffer, block])
SnBufferKeepsOldest(buffer, block) ==
    IF Len(buffer) + 1 > sn_buffer_cap THEN buffer ELSE Append(buffer, block)
SnBufferAfter(buffer, block) ==
    IF Len(buffer) + 1 > sn_buffer_cap
    THEN Append(SubSeq(buffer, (Len(buffer) + 1 - sn_buffer_cap) + 1, Len(buffer)),
                block)
    ELSE Append(buffer, block)

\* audio_callback up to the while loop: overflow protection and vstack
SnAudioCallback ==
    /\ sn_pc = "idle"
    /\ sn_now + SourcePeriod <= MaxTime
    /\ sn_now' = sn_now + SourcePeriod
    /\ IF sn_audio_buffer + 1 > sn_buffer_cap
       THEN /\ sn_buffer_underruns' = sn_buffer_underruns + 1
            /\ sn_audio_buffer' =
                   (sn_audio_buffer - (sn_audio_buffer + 1 - sn_buffer_cap)) + 1
       ELSE /\ sn_audio_buffer' = sn_audio_buffer + 1
            /\ UNCHANGED sn_buffer_underruns
    /\ sn_buffer_frames' = SnBufferAfter(sn_buffer_frames, sn_now + SourcePeriod)
    /\ sn_pc' = "loop"
    /\ UNCHANGED <<sn_next_send_time, sn_packet_count, sn_packets_sent,
                   sn_send_errors, sn_timing_errors, sw_retries, sw_attempt,
                   sw_result, sn_history>>
    /\ UNCHANGED <<zl_vars, tracker_vars, codec_vars, rcv_vars, enh_vars, tz_vars,
                   late_vars>>

\* next_send_time after `if self.next_send_time == 0.0`
SnArmed == IF sn_next_send_time = 0 THEN sn_now ELSE sn_next_send_time

\* current_time >= self.next_send_time - self.timing_precision
SnDue == sn_now >= SnArmed - sn_timing_precision

\* while len(audio_buffer) >= opus_frame_samples, time to send: extract one
\* frame, build the packet and call send_with_retry
SnLoopSend ==
    /\ sn_pc = "loop"
    /\ sn_audio_buffer >= 1
    /\ SnDue
    /\ sn_next_send_time' = SnArmed
    /\ sn_first_send_time' =
           IF sn_next_send_time = 0 THEN sn_now ELSE sn_first_send_time
    /\ sn_audio_buffer' = sn_audio_buffer - 1
    /\ sn_buffer_frames' = Tail(sn_buffer_frames)
    /\ sn_frame' = sn_frame + 1
    /\ sw_attempt' = 0
    /\ sw_result' = "none"
    /\ sw_errors_before' = sn_send_errors
    /\ sn_pc' = "sending"
    /\ UNCHANGED <<sn_now, sn_packet_count, sn_packets_sent, sn_send_errors,
                   sn_timing_errors, sn_buffer_underruns, sw_retries,
                   sn_attempted, sn_wire, sn_wire_seqs, sn_dropped>>
    /\ UNCHANGED <<zl_vars, tracker_vars, codec_vars, rcv_vars, enh_vars, tz_vars,
                   late_vars>>

\* the loop ends: the buffer holds no complete frame, or it is not time
SnLoopBreak ==
    /\ sn_pc = "loop"
    /\ ~(sn_audio_buffer >= 1 /\ SnDue)
    /\ sn_next_send_time' = IF sn_audio_buffer >= 1 THEN SnArmed ELSE sn_next_send_time
    /\ sn_first_send_time' =
           IF sn_audio_buffer >= 1 /\ sn_next_send_time = 0
           THEN sn_now ELSE sn_first_send_time
    /\ sn_pc' = "idle"
    /\ UNCHANGED <<sn_now, sn_audio_buffer, sn_buffer_frames, sn_packet_count, sn_packets_sent,
                   sn_send_errors, sn_timing_errors, sn_buffer_underruns,
                   sw_retries, sw_attempt, sw_result,
                   sn_attempted, sn_frame, sn_wire, sn_wire_seqs, sn_dropped,
                   sw_errors_before>>
    /\ UNCHANGED <<zl_vars, tracker_vars, codec_vars, rcv_vars, enh_vars, tz_vars,
                   late_vars>>

\* ------------------------------------------- sender.py, send_with_retry
\* `if attempt < retries - 1`: sleep and try again
SwMayRetryOnceMore(attempt) == attempt < sw_retries
SwMayRetry(attempt) == attempt < sw_retries - 1

\* for attempt in range(retries): one sendto; the socket accepts the
\* packet or raises socket.error
SwAttempt(socket_ok) ==
    /\ sn_pc = "sending"
    /\ sw_result = "none"
    /\ sw_retries > 0
    /\ sw_attempt' = sw_attempt + 1
    /\ IF socket_ok
       THEN /\ sn_packets_sent' = sn_packets_sent + 1
            /\ sn_wire' = sn_wire \cup {sn_frame}
            /\ sn_wire_seqs' = Append(sn_wire_seqs, sn_packet_count)
            /\ sw_result' = "True"
            /\ UNCHANGED <<sn_send_errors, sn_dropped>>
       ELSE /\ sn_send_errors' = sn_send_errors + 1
            /\ IF SwMayRetry(sw_attempt)
               THEN UNCHANGED <<sw_result, sn_dropped>>
               ELSE /\ sw_result' = "False"
                    /\ sn_dropped' = sn_dropped \cup {sn_frame}
            /\ UNCHANGED <<sn_packets_sent, sn_wire, sn_wire_seqs>>
    /\ UNCHANGED <<sn_now, sn_pc, sn_audio_buffer, sn_buffer_frames, sn_next_send_time,
                   sn_packet_count, sn_timing_errors, sn_buffer_underruns,
                   sw_retries, sn_first_send_time, sn_attempted, sn_frame,
                   sw_errors_before>>
    /\ UNCHANGED <<zl_vars, tracker_vars, codec_vars, rcv_vars, enh_vars, tz_vars,
                   late_vars>>

SwAttemptOk == SwAttempt(TRUE)

SwAttemptFails ==
    /\ sn_send_errors < MaxSendFailures
    /\ SwAttempt(FALSE)

\* range(retries) is empty: the final `return False`
SwNoAttempt ==
    /\ sn_pc = "sending"
    /\ sw_result = "none"
    /\ sw_retries = 0
    /\ sw_result' = "False"
    /\ sn_dropped' = sn_dropped \cup {sn_frame}
    /\ UNCHANGED <<sn_now, sn_pc, sn_audio_buffer, sn_buffer_frames, sn_next_send_time,
                   sn_packet_count, sn_packets_sent, sn_send_errors,
                   sn_timing_errors, sn_buffer_underruns, sw_retries,
                   sw_attempt, sn_first_send_time, sn_attempted, sn_frame,
                   sn_wire, sn_wire_seqs, sw_errors_before>>
    /\ UNCHANGED <<zl_vars, tracker_vars, codec_vars, rcv_vars, enh_vars, tz_vars,
                   late_vars>>

\* next_send_time after a send that returned `sent`
SnNextSendTimeAfterSlow(sent) ==
    IF sent THEN sn_next_send_time + sn_frame_interval + 1 ELSE sn_next_send_time

SnNextSendTimeAfter(sent) ==
    IF sent THEN sn_next_send_time + sn_frame_interval ELSE sn_next_send_time

\* `if self.send_with_retry(packet):` and the rest of the loop body
SnAfterSend ==
    /\ sn_pc = "sending"
    /\ sw_result # "none"
    /\ sn_attempted' = sn_attempted + 1
    /\ sn_next_send_time' = SnNextSendTimeAfter(sw_result = "True")
    /\ IF sw_result = "True"
       THEN /\ sn_packet_count' = sn_packet_count + 1
            /\ sn_timing_errors' =
                   IF Abs(sn_now - sn_next_send_time) > sn_timing_precision
                   THEN sn_timing_errors + 1 ELSE sn_timing_errors
       ELSE UNCHANGED <<sn_packet_count, sn_timing_errors>>
    /\ sn_pc' = "loop"
    /\ UNCHANGED <<sn_now, sn_audio_buffer, sn_buffer_frames, sn_packets_sent, sn_send_errors,
                   sn_buffer_underruns, sw_retries, sw_attempt, sw_result,
                   sn_first_send_time, sn_frame, sn_wire, sn_wire_seqs, sn_dropped,
                   sw_errors_before>>
    /\ UNCHANGED <<zl_vars, tracker_vars, codec_vars, rcv_vars, enh_vars, tz_vars,
                   late_vars>>

NextSender ==
    \/ SnAudioCallback
    \/ SnLoopSend
    \/ SnLoopBreak
    \/ SwAttemptOk
    \/ SwAttemptFails
    \/ SwNoAttempt
    \/ SnAfterSend

\* ------------------------------------- sender_zero_loss.py, the sender
tz_others == <<zl_vars, tracker_vars, codec_vars, rcv_vars, enh_vars, sn_vars,
               late_vars>>

\* transmission_thread before its loop: next_send_time = time.time()
TzThreadStart ==
    /\ tz_pc = "new"
    /\ tz_next_send_time' = tz_now
    /\ tz_start' = tz_now
    /\ tz_pc' = "running"
    /\ UNCHANGED <<tz_now, tz_audio_queue, tz_captured, tz_packet_count,
                   tz_packets_sent, tz_send_errors, tz_timing_errors,
                   tz_attempted, tz_log, tz_cb_pc, tz_cb_block, tz_cb_dropped>>
    /\ UNCHANGED tz_others

\* put_nowait; on queue.Full get_nowait, then put_nowait
TzPut(q, frame) ==
    IF Len(q) < tz_queue_maxsize THEN Append(q, frame)
    ELSE Append(Tail(q), frame)

\* The thread sleeps until next_send_time; meanwhile SourcePeriod ticks
\* pass and the capture source calls audio_callback with one frame.
TzAudioCallback ==
    /\ tz_pc = "running"
    /\ tz_now < tz_next_send_time
    /\ tz_now + SourcePeriod <= MaxTime
    /\ tz_now' = tz_now + SourcePeriod
    /\ tz_captured' = tz_captured + 1
    /\ tz_audio_queue' = TzPut(tz_audio_queue, tz_captured + 1)
    /\ UNCHANGED <<tz_pc, tz_next_send_time, tz_packet_count, tz_packets_sent,
                   tz_send_errors, tz_timing_errors, tz_start, tz_attempted,
                   tz_log, tz_cb_pc, tz_cb_block, tz_cb_dropped>>
    /\ UNCHANGED tz_others

\* self.next_send_time += self.frame_interval
TzNextSendTimeSkips == tz_next_send_time + 2 * tz_frame_interval
TzNextSendTime == tz_next_send_time + tz_frame_interval

\* the frame of silence sent when the queue is empty
TzSilence == 0

\* send_frame: the sequence number packed into the header; packet_count is
\* increased before the packet is built unless encode raised
TzSeqOf(outcome) ==
    IF outcome = "encode_error" THEN -1 ELSE tz_packet_count + 1

\* One pass of the loop of transmission_thread at or after next_send_time:
\* a chunk from the queue or a frame of silence, send_frame, reschedule.
\* outcome: "sent", "encode_error" (encode raises) or "send_error"
\* (sendto raises).
TzTransmit(outcome) ==
    /\ tz_pc = "running"
    /\ tz_now >= tz_next_send_time
    /\ tz_audio_queue' =
           IF tz_audio_queue = <<>> THEN <<>> ELSE Tail(tz_audio_queue)
    /\ tz_attempted' = tz_attempted + 1
    /\ tz_log' = Append(tz_log,
                        [at |-> tz_now, deadline |-> tz_next_send_time,
                         frame |-> IF tz_audio_queue = <<>> THEN TzSilence
                                   ELSE Head(tz_audio_queue),
                         seq |-> TzSeqOf(outcome), outcome |-> outcome])
    /\ tz_packet_count' =
           IF outcome = "encode_error" THEN tz_packet_count
           ELSE tz_packet_count + 1
    /\ tz_packets_sent' =
           IF outcome = "sent" THEN tz_packets_sent + 1 ELSE tz_packets_sent
    /\ tz_send_errors' =
           IF outcome = "sent" THEN tz_send_errors ELSE tz_send_errors + 1
    /\ tz_next_send_time' = TzNextSendTime
    /\ tz_timing_errors' =
           IF tz_now # TzNextSendTime
           THEN tz_timing_errors + 1 ELSE tz_timing_errors
    /\ UNCHANGED <<tz_now, tz_pc, tz_captured, tz_start, tz_cb_pc, tz_cb_block,
                   tz_cb_dropped>>
    /\ UNCHANGED tz_others

TzTransmitSent == TzTransmit("sent")

TzTransmitFails ==
    /\ tz_send_errors < MaxSendFailures
    /\ \E outcome \in {"encode_error", "send_error"} : TzTransmit(outcome)

\* ---- audio_callback of sender_zero_loss.py statement by statement, and
\* time passing on its own: the capture source calls at any time, up to
\* MaxBlocks times, and the transmission thread may wake late, within
\* DeadlineHorizon ticks
MaxBlocks == 6
DeadlineHorizon == 10

TzCbUnchanged ==
    /\ UNCHANGED <<tz_now, tz_pc, tz_next_send_time, tz_packet_count,
                   tz_packets_sent, tz_send_errors, tz_timing_errors, tz_start,
                   tz_attempted, tz_log>>
    /\ UNCHANGED tz_others

\* `self.audio_queue.put_nowait(audio_data.copy())`: queued, or queue.Full
TzCbPut ==
    /\ tz_pc = "running"
    /\ tz_cb_pc = "idle"
    /\ tz_captured < MaxBlocks
    /\ tz_captured' = tz_captured + 1
    /\ IF Len(tz_audio_queue) < tz_queue_maxsize
       THEN /\ tz_audio_queue' = Append(tz_audio_queue, tz_captured + 1)
            /\ UNCHANGED <<tz_cb_pc, tz_cb_block>>
       ELSE /\ tz_cb_pc' = "full"
            /\ tz_cb_block' = tz_captured + 1
            /\ UNCHANGED tz_audio_queue
    /\ UNCHANGED <<tz_cb_dropped>>
    /\ TzCbUnchanged

\* `except queue.Full: self.audio_queue.get_nowait()`; on queue.Empty `pass`:
\* the callback returns without queueing its block
TzCbGet ==
    /\ tz_cb_pc = "full"
    /\ IF tz_audio_queue # <<>>
       THEN /\ tz_audio_queue' = Tail(tz_audio_queue)
            /\ tz_cb_pc' = "refill"
            /\ UNCHANGED <<tz_cb_block, tz_cb_dropped>>
       ELSE /\ tz_cb_pc' = "idle"
            /\ tz_cb_block' = 0
            /\ tz_cb_dropped' = tz_cb_dropped \cup {tz_cb_block}
            /\ UNCHANGED tz_audio_queue
    /\ UNCHANGED tz_captured
    /\ TzCbUnchanged

\* the second `self.audio_queue.put_nowait(audio_data.copy())`; the callback
\* is the only producer, so the place freed by get_nowait is still free
TzCbRefill ==
    /\ tz_cb_pc = "refill"
    /\ Len(tz_audio_queue) < tz_queue_maxsize
    /\ tz_audio_queue' = Append(tz_audio_queue, tz_cb_block)
    /\ tz_cb_pc' = "idle"
    /\ tz_cb_block' = 0
    /\ UNCHANGED <<tz_captured, tz_cb_dropped>>
    /\ TzCbUnchanged

\* one tick passes while the thread sleeps, waits for the processor or is
\* about to look at the clock
TzTick ==
    /\ tz_pc = "running"
    /\ tz_now < DeadlineHorizon
    /\ tz_now' = tz_now + 1
    /\ UNCHANGED <<tz_pc, tz_audio_queue, tz_captured, tz_next_send_time,
                   tz_packet_count, tz_packets_sent, tz_send_errors,
                   tz_timing_errors, tz_start, tz_attempted, tz_log,
                   tz_cb_pc, tz_cb_block, tz_cb_dropped>>
    /\ UNCHANGED tz_others

NextZeroLossSender ==
    \/ TzThreadStart
    \/ TzAudioCallback
    \/ TzTransmitSent
    \/ TzTransmitFails

\* ------------------------------------------------ the render callbacks
\* The output stream calls the callback at most MaxCallbacks times.
MaxCallbacks == 4

cb_others == <<codec_vars, rcv_vars, enh_vars, sn_vars, tz_vars, lc_vars,
               ss_vars, cg_vars, hl_vars,
               wr_vars>>

\* self.buffer_underruns += 1
UnderrunsKept(n) == n
UnderrunsAfter(n) == n + 1

\* receiver_zero_loss.py audio_callback: get_nowait, or silence on
\* queue.Empty
ZlAudioCallback ==
    /\ zl_receiving
    /\ zl_calls < MaxCallbacks
    /\ zl_calls' = zl_calls + 1
    /\ zl_underruns_before' = zl_buffer_underruns
    /\ zl_found_empty' = (playback_queue = <<>>)
    /\ IF playback_queue # <<>>
       THEN /\ zl_outdata' = Head(playback_queue)
            /\ playback_queue' = Tail(playback_queue)
            /\ UNCHANGED zl_buffer_underruns
       ELSE /\ zl_outdata' = ZeroBlock
            /\ zl_buffer_underruns' = UnderrunsAfter(zl_buffer_underruns)
            /\ UNCHANGED playback_queue
    /\ UNCHANGED <<jitter_buffer, jitter_buffer_size, expected_packet,
                   last_played_packet, packets_received, packets_lost,
                   packets_late, packets_duplicate, rx_pc, rx_packet, jb_pc,
                   script, slot_log, admitted, reorder, rx_copy_of_released,
                   rx_seen>>
    /\ UNCHANGED <<rc_buffer_underruns, rc_last_audio_frame, rc_outdata,
                   rc_calls, rc_found_empty, rc_underruns_before>>
    /\ UNCHANGED tracker_vars
    /\ UNCHANGED cb_others

\* Simple fade-out concealment: last_audio_frame * linspace(0.5, 0.0)
FadeOut(frame) ==
    IF frame.kind = "zeros" THEN ZeroBlock
    ELSE [kind |-> "concealment", src |-> frame.src]

\* reciever.py audio_callback, under queue_lock
RcAudioCallback ==
    /\ rc_calls < MaxCallbacks
    /\ rc_calls' = rc_calls + 1
    /\ rc_underruns_before' = rc_buffer_underruns
    /\ rc_found_empty' = (audio_queue = <<>>)
    /\ IF Len(audio_queue) > 0
       THEN /\ rc_outdata' = [kind |-> "audio", src |-> Head(audio_queue)]
            /\ audio_queue' = Tail(audio_queue)
            /\ rc_buffer_underruns' =
                   IF Len(audio_queue) - 1 < 2
                   THEN UnderrunsAfter(rc_buffer_underruns)
                   ELSE rc_buffer_underruns
       ELSE /\ rc_outdata' =
                   IF rc_last_audio_frame # NoFrame
                   THEN FadeOut(rc_last_audio_frame) ELSE ZeroBlock
            /\ rc_buffer_underruns' = UnderrunsAfter(rc_buffer_underruns)
            /\ UNCHANGED audio_queue
    /\ rc_last_audio_frame' = rc_outdata'
    /\ UNCHANGED <<received_sequences, last_sequence, duplicate_packets,
                   out_of_order_packets, lost_packets, self_packet_count,
                   payloads_decode, next_fresh>>
    /\ UNCHANGED <<zl_buffer_underruns, zl_outdata, zl_calls, zl_found_empty,
                   zl_underruns_before>>
    /\ UNCHANGED zl_vars
    /\ UNCHANGED cb_others

\* ------------------------------------------------- stopping a stream
lc_others == <<zl_vars, tracker_vars, codec_vars, rcv_vars, enh_vars, sn_vars,
               tz_vars, cb_vars, ss_vars, cg_vars, hl_vars,
               wr_vars>>

\* The statement the stop routine of p executes next
LcNext(p) == StopSteps(p)[lc_main[p] + 1]

LcAt(p, op) ==
    /\ lc_main[p] < Len(StopSteps(p))
    /\ LcNext(p)[1] = op

\* self.receiving = False / self.streaming = False
LcClearFlag(p) ==
    /\ LcAt(p, "clear_flag")
    /\ lc_flag' = [lc_flag EXCEPT ![p] = FALSE]
    /\ lc_main' = [lc_main EXCEPT ![p] = @ + 1]
    /\ UNCHANGED <<lc_sock, lc_stream, lc_thread>>
    /\ UNCHANGED lc_others

\* self.stream.stop(); self.stream.close()
LcStopStream(p) ==
    /\ LcAt(p, "stop_stream")
    /\ lc_stream' = [lc_stream EXCEPT ![p] = "closed"]
    /\ lc_main' = [lc_main EXCEPT ![p] = @ + 1]
    /\ UNCHANGED <<lc_flag, lc_sock, lc_thread>>
    /\ UNCHANGED lc_others

\* self.sock.close()
LcCloseSock(p) ==
    /\ LcAt(p, "close_sock")
    /\ lc_sock' = [lc_sock EXCEPT ![p] = "closed"]
    /\ lc_main' = [lc_main EXCEPT ![p] = @ + 1]
    /\ UNCHANGED <<lc_flag, lc_stream, lc_thread>>
    /\ UNCHANGED lc_others

\* thread.join(timeout): the timeouts (1 s, 2 s) exceed the longest wait of
\* a worker's loop (socket timeout 0.1 s, sleeps of 5 and 10 ms), so join
\* returns once the thread has left its loop.
LcJoin(p) ==
    /\ LcAt(p, "join")
    /\ lc_thread[p][LcNext(p)[2]] = "exited"
    /\ lc_main' = [lc_main EXCEPT ![p] = @ + 1]
    /\ UNCHANGED <<lc_flag, lc_sock, lc_stream, lc_thread>>
    /\ UNCHANGED lc_others

\* while self.receiving / while self.streaming: a worker finds the flag
\* cleared at its next wake-up and leaves its loop
LcWorkerExit(p, t) ==
    /\ lc_thread[p][t] = "running"
    /\ ~lc_flag[p]
    /\ lc_thread' = [lc_thread EXCEPT ![p][t] = "exited"]
    /\ UNCHANGED <<lc_flag, lc_sock, lc_stream, lc_main>>
    /\ UNCHANGED lc_others

NextStop ==
    \E p \in Programs :
        \/ LcClearFlag(p)
        \/ LcStopStream(p)
        \/ LcCloseSock(p)
        \/ LcJoin(p)
        \/ \E t \in Threads(p) : LcWorkerExit(p, t)

\* ------------------------------------------------------------ sessions
\* Each program is started at most MaxSessions times.
MaxSessions == 2

ss_others == <<tracker_vars, codec_vars, rcv_vars, enh_vars, tz_vars, lc_vars,
               cg_vars, hl_vars,
               wr_vars>>

\* receiver_zero_loss.py stop_receiving, taken when both threads are at the
\* head of their loops, where they test self.receiving and end
ZlStopReceiving ==
    /\ zl_receiving
    /\ rx_pc = "recvfrom"
    /\ jb_pc = "check"
    /\ zl_receiving' = FALSE
    /\ UNCHANGED <<zl_sessions, sn_sessions>>
    /\ UNCHANGED <<zl_vars, cb_vars, sn_vars>>
    /\ UNCHANGED ss_others

\* receiver_zero_loss.py start_receiving: reset counters, clear buffers,
\* start the threads. jitter_buffer_size is not assigned.
ZlStartReceiving ==
    /\ ~zl_receiving
    /\ zl_sessions < MaxSessions
    /\ zl_receiving' = TRUE
    /\ zl_sessions' = zl_sessions + 1
    /\ packets_received' = 0
    /\ packets_lost' = 0
    /\ packets_late' = 0
    /\ packets_duplicate' = 0
    /\ zl_buffer_underruns' = 0
    /\ expected_packet' = 1
    /\ last_played_packet' = 0
    /\ jitter_buffer' = <<>>
    /\ playback_queue' = <<>>
    /\ rx_pc' = "recvfrom"
    /\ rx_packet' = NoPacket
    /\ jb_pc' = "check"
    /\ slot_log' = <<>>
    /\ admitted' = {}
    /\ reorder' = {}
    /\ rx_copy_of_released' = FALSE
    /\ rx_seen' = <<0, 0>>
    /\ UNCHANGED <<jitter_buffer_size, script>>
    /\ UNCHANGED <<zl_outdata, rc_buffer_underruns, rc_last_audio_frame,
                   rc_outdata, zl_calls, rc_calls, zl_found_empty,
                   rc_found_empty, zl_underruns_before, rc_underruns_before>>
    /\ UNCHANGED <<sn_sessions, sn_vars>>
    /\ UNCHANGED ss_others

\* sender.py: self.streaming = False (stop_streaming, cleanup_enhanced),
\* seen by the keep-alive loop between two callbacks
SnStopStreaming ==
    /\ sn_pc = "idle"
    /\ sn_pc' = "off"
    /\ UNCHANGED <<sn_now, sn_audio_buffer, sn_buffer_frames, sn_next_send_time,
                   sn_packet_count, sn_packets_sent, sn_send_errors,
                   sn_timing_errors, sn_buffer_underruns, sw_retries,
                   sw_attempt, sw_result, sn_history>>
    /\ UNCHANGED <<zl_receiving, zl_sessions, sn_sessions>>
    /\ UNCHANGED <<zl_vars, cb_vars>>
    /\ UNCHANGED ss_others

\* sender.py start_streaming: streaming, packet_count, start_time and
\* next_send_time are assigned
SnStartStreaming ==
    /\ sn_pc = "off"
    /\ sn_sessions < MaxSessions
    /\ sn_sessions' = sn_sessions + 1
    /\ sn_pc' = "idle"
    /\ sn_packet_count' = 0
    /\ sn_next_send_time' = 0
    /\ sn_first_send_time' = 0
    /\ sn_attempted' = 0
    /\ UNCHANGED <<sn_now, sn_audio_buffer, sn_buffer_frames, sn_packets_sent, sn_send_errors,
                   sn_timing_errors, sn_buffer_underruns, sw_retries,
                   sw_attempt, sw_result, sn_frame, sn_wire, sn_wire_seqs, sn_dropped,
                   sw_errors_before>>
    /\ UNCHANGED <<zl_receiving, zl_sessions>>
    /\ UNCHANGED <<zl_vars, cb_vars>>
    /\ UNCHANGED ss_others

\* =========================================================================
\* Part 11: sender.py, detect_network_congestion.  Timestamps are
\* perf_counter readings in ticks of 10 ms, so frame_interval is
\* sn_frame_interval ticks.
\* =========================================================================
cg_others == <<zl_vars, tracker_vars, codec_vars, rcv_vars, enh_vars, sn_vars,
               tz_vars, cb_vars, lc_vars, ss_vars, hl_vars,
               wr_vars>>

\* send_timestamps = deque(maxlen=100)
send_timestamps_maxlen == 100

\* `if len(self.send_timestamps) < 10: return False`
min_send_timestamps == 10

\* deque.append on a deque with maxlen: a full deque drops its oldest entry
DequeAppend(q, x, maxlen) ==
    IF Len(q) >= maxlen THEN Append(Tail(q), x) ELSE Append(q, x)

\* intervals.append(timestamps[i] - timestamps[i-1]) for i in 1..len-1
Intervals(timestamps) ==
    [i \in 1..(Len(timestamps) - 1) |-> timestamps[i + 1] - timestamps[i]]

\* sum(intervals)
\* (perf_counter is monotonic, so no interval is negative: the sum is the
\* size of the bag that holds index i of every positive interval s[i] times)
SumOf(s) ==
    BagCardinality([i \in {j \in DOMAIN s : s[j] > 0} |-> s[i]])

\* `avg_interval > expected_interval * 1.5` with avg_interval = total / count
ReachesThreshold(total, count) == 2 * total >= 3 * sn_frame_interval * count
ExceedsThreshold(total, count) == 2 * total > 3 * sn_frame_interval * count

\* the value detect_network_congestion returns for the deque it finds
DetectsCongestion(timestamps) ==
    IF Len(timestamps) < min_send_timestamps THEN FALSE
    ELSE LET intervals == Intervals(timestamps)
         IN  IF intervals = <<>> THEN FALSE
             ELSE ExceedsThreshold(SumOf(intervals), Len(intervals))

\* the call of detect_network_congestion that adaptive_send_timing makes
DetectNetworkCongestion ==
    /\ cg_events_before' = cg_network_congestion_events
    /\ cg_flagged' = DetectsCongestion(cg_send_timestamps)
    /\ cg_network_congestion_events' =
           IF DetectsCongestion(cg_send_timestamps)
           THEN cg_network_congestion_events + 1
           ELSE cg_network_congestion_events

\* self.adaptive_delay = 0.001, and `if self.adaptive_delay < 0.0001`, in
\* picoseconds
adaptive_delay_step == 1000000000
adaptive_delay_floor == 100000000

\* `(current_time - self.last_congestion_time) > 2.0`, in ticks
congestion_cooldown == 200

\* self.adaptive_delay *= 0.9
Undecayed(d) == d
Decayed(d) == (d \div 10) * 9 + ((d % 10) * 9) \div 10

\* the else branch of adaptive_send_timing: the delay after a call that
\* detects no congestion while congestion_detected is set
CooledDown == (cg_now - cg_last_congestion_time) > congestion_cooldown

\* sender.py adaptive_send_timing, called before each send
AdaptiveSendTiming ==
    /\ cg_pc = "timing"
    /\ DetectNetworkCongestion
    /\ cg_delay_before' = cg_adaptive_delay
    /\ IF DetectsCongestion(cg_send_timestamps)
       THEN /\ cg_last_flagged_at' = cg_now
            /\ IF ~cg_congestion_detected
               THEN /\ cg_congestion_detected' = TRUE
                    /\ cg_adaptive_delay' = adaptive_delay_step
                    /\ cg_last_congestion_time' = cg_now
               ELSE UNCHANGED <<cg_congestion_detected, cg_adaptive_delay,
                                cg_last_congestion_time>>
       ELSE /\ UNCHANGED <<cg_last_flagged_at, cg_last_congestion_time>>
            /\ IF cg_congestion_detected /\ CooledDown
               THEN IF Decayed(cg_adaptive_delay) < adaptive_delay_floor
                    THEN /\ cg_adaptive_delay' = 0
                         /\ cg_congestion_detected' = FALSE
                    ELSE /\ cg_adaptive_delay' = Decayed(cg_adaptive_delay)
                         /\ UNCHANGED cg_congestion_detected
               ELSE UNCHANGED <<cg_adaptive_delay, cg_congestion_detected>>
    /\ cg_pc' = "send"
    /\ UNCHANGED <<cg_now, cg_phase, cg_send_timestamps, cg_recorded, cg_budget,
                   cg_slow_budget>>
    /\ UNCHANGED cg_others

\* send_with_retry accepts the packet `gap` ticks after the previous one:
\* self.send_timestamps.append(time.perf_counter())
CgSend(gap, phase) ==
    /\ cg_pc = "send"
    /\ cg_budget > 0
    /\ cg_budget' = cg_budget - 1
    /\ cg_slow_budget' = IF gap = SlowGap THEN cg_slow_budget - 1 ELSE cg_slow_budget
    /\ cg_now' = cg_now + gap
    /\ cg_send_timestamps' =
           DequeAppend(cg_send_timestamps, cg_now + gap, send_timestamps_maxlen)
    /\ cg_recorded' = Append(cg_recorded, cg_now + gap)
    /\ cg_phase' = phase
    /\ cg_pc' = "timing"
    /\ UNCHANGED <<cg_network_congestion_events, cg_flagged, cg_events_before,
                   cg_adaptive_delay, cg_congestion_detected,
                   cg_last_congestion_time, cg_last_flagged_at, cg_delay_before>>
    /\ UNCHANGED cg_others

\* the network is clear: the packet leaves one frame interval after the
\* previous one
CgSendOnTime ==
    /\ CgSend(sn_frame_interval,
              IF cg_phase = "clear" THEN "clear" ELSE "cleared")

\* the network is congested (one episode per run): the packet leaves
\* SlowGap ticks after the previous one
CgSendSlow ==
    /\ cg_phase \in {"clear", "congested"}
    /\ cg_slow_budget > 0
    /\ CgSend(SlowGap, "congested")

\* ---- congestion detection over one episode of slow sends
InitCongested ==
    /\ InitReceiver
    /\ script = <<>>
    /\ TrackerIdle
    /\ CodecIdle
    /\ MoreIdle

NextCongested == AdaptiveSendTiming \/ CgSendOnTime \/ CgSendSlow

SpecCongested == InitCongested /\ [][NextCongested]_vars

\* ---- the adaptive delay over a run that starts on a congested network
\* and, once the congestion is over, sends on time
MaxDecaySends == 250
MaxSlowSends == 12

InitDecay ==
    /\ InitReceiver
    /\ script = <<>>
    /\ TrackerIdle
    /\ CodecIdle
    /\ zl_parse_out = Pending
    /\ InitRcv
    /\ InitEnh
    /\ InitSender
    /\ InitZeroLossSender
    /\ InitSessions
    /\ InitLifecycle
    /\ InitCallbacks
    /\ InitLoops
    /\ InitWrap
    /\ InitCongestionWith("congested", MaxDecaySends, MaxSlowSends)

\* the callback keeps being invoked while budget is left
SpecDecay == InitDecay /\ [][NextCongested]_vars /\ WF_vars(NextCongested)

\* ---- sender_zero_loss.py: the transmission thread against a capture
\* callback that comes at any time
InitDeadline ==
    /\ InitReceiver
    /\ script = <<>>
    /\ TrackerIdle
    /\ CodecIdle
    /\ MoreIdle

NextDeadline ==
    \/ TzThreadStart
    \/ TzTick
    \/ TzCbPut
    \/ TzCbGet
    \/ TzCbRefill
    \/ TzTransmitSent

SpecDeadline == InitDeadline /\ [][NextDeadline]_vars

\* =========================================================================
\* Part 12: the loops of receiver_zero_loss.py (receive_packets,
\* process_jitter_buffer) and sender_zero_loss.py (transmission_thread)
\* against the clearing of their flag by stop_receiving / stop_streaming
\* =========================================================================
hl_others == <<zl_vars, tracker_vars, codec_vars, rcv_vars, enh_vars, sn_vars,
               tz_vars, cb_vars, lc_vars, ss_vars, cg_vars,
               wr_vars>>

\* `while self.receiving:` / `while self.streaming:`
LoopTestIgnoresFlag(loop) == TRUE
LoopTest(loop) == hl_flag[FlagOf(loop)]

\* The ways through the body of each loop; every one of them ends at the
\* `while` again (continue, a handled exception, or the end of the body)
Branches(loop) ==
    CASE loop = "receive_packets" ->
             IF hl_sock["receiving"] = "open"
             THEN {"timeout", "continue", "buffered"}
             ELSE {"oserror"}
      [] loop = "process_jitter_buffer" ->
             {"released", "conceded", "sleep"}
      [] loop = "transmission_thread" ->
             {"send_frame", "sleep", "spin"}

\* the loop is at its `while`: it enters the body or leaves the loop
HlTest ==
    \E loop \in Loops :
        /\ hl_pc[loop] = "test"
        /\ IF LoopTest(loop)
           THEN hl_pc' = [hl_pc EXCEPT ![loop] = "body"]
           ELSE hl_pc' = [hl_pc EXCEPT ![loop] = "exited"]
        /\ UNCHANGED <<hl_flag, hl_sock, hl_branch, hl_after>>
        /\ UNCHANGED hl_others

\* the loop finishes the pass it is in: recvfrom returns or raises within
\* its 0.1 s timeout, the sleeps and the queue get are bounded
HlBody ==
    \E loop \in Loops : \E branch \in Branches(loop) :
        /\ hl_pc[loop] = "body"
        /\ hl_pc' = [hl_pc EXCEPT ![loop] = "test"]
        /\ hl_branch' = [hl_branch EXCEPT ![loop] = branch]
        /\ hl_after' =
               [hl_after EXCEPT ![loop] =
                    IF hl_flag[FlagOf(loop)] THEN hl_after[loop]
                    ELSE hl_after[loop] + 1]
        /\ UNCHANGED <<hl_flag, hl_sock>>
        /\ UNCHANGED hl_others

\* stop_receiving: self.receiving = False; stop_streaming: self.streaming = False
HlClearFlag ==
    \E f \in Flags :
        /\ hl_flag[f]
        /\ hl_flag' = [hl_flag EXCEPT ![f] = FALSE]
        /\ UNCHANGED <<hl_sock, hl_pc, hl_branch, hl_after>>
        /\ UNCHANGED hl_others

\* self.sock.close() of the stop routine, after the flag was cleared
HlCloseSock ==
    \E f \in Flags :
        /\ ~hl_flag[f]
        /\ hl_sock[f] = "open"
        /\ hl_sock' = [hl_sock EXCEPT ![f] = "closed"]
        /\ UNCHANGED <<hl_flag, hl_pc, hl_branch, hl_after>>
        /\ UNCHANGED hl_others

\* ---- the loops while their program is stopped
InitHalt ==
    /\ InitReceiver
    /\ script = <<>>
    /\ TrackerIdle
    /\ CodecIdle
    /\ zl_parse_out = Pending
    /\ InitRcv
    /\ InitEnh
    /\ InitSender
    /\ InitZeroLossSender
    /\ InitSessions
    /\ InitLifecycle
    /\ InitCallbacks
    /\ InitCongestion
    /\ InitWrap
    /\ \E f \in Flags : InitLoopsOf({f})

NextHalt == HlTest \/ HlBody \/ HlClearFlag \/ HlCloseSock

\* every thread keeps being scheduled
HlThread(loop) ==
    /\ hl_pc[loop] # "exited"
    /\ (HlTest \/ HlBody)
    /\ hl_pc'[loop] # hl_pc[loop]

SpecHalt ==
    /\ InitHalt
    /\ [][NextHalt]_vars
    /\ WF_vars(HlThread("receive_packets"))
    /\ WF_vars(HlThread("process_jitter_buffer"))
    /\ WF_vars(HlThread("transmission_thread"))

\* =========================================================================
\* Part 13: packet_count of the senders and expected_packet of
\* receiver_zero_loss.py when the numbers reach 2^32
\* =========================================================================
wr_others == <<zl_vars, tracker_vars, codec_vars, rcv_vars, enh_vars, sn_vars,
               tz_vars, cb_vars, lc_vars, ss_vars, cg_vars, hl_vars>>

\* sender_zero_loss.py send_frame: packet_count += 1, then the header is
\* packed; struct.error lands in `except Exception`, which counts a send
\* error and returns False
WrSendFrame ==
    /\ wr_sender = "sender_zero_loss"
    /\ wr_attempts < MaxWrapSends
    /\ wr_attempts' = wr_attempts + 1
    /\ wr_packet_count' = Succ(wr_packet_count)
    /\ wr_wire' = IF PacksAsL(Succ(wr_packet_count))
                  THEN Append(wr_wire, Succ(wr_packet_count))
                  ELSE wr_wire
    /\ UNCHANGED <<wr_sender, wr_delivered, wr_expected_packet,
                   wr_jitter_buffer, wr_jitter_buffer_size, wr_packets_late,
                   wr_released>>
    /\ UNCHANGED wr_others

\* sender.py audio_callback: the header is packed from packet_count, which
\* is increased after the send; struct.error lands in the callback's
\* `except Exception`, which prints it
WrAudioCallback ==
    /\ wr_sender = "sender"
    /\ wr_attempts < MaxWrapSends
    /\ wr_attempts' = wr_attempts + 1
    /\ IF PacksAsL(wr_packet_count)
       THEN /\ wr_wire' = Append(wr_wire, wr_packet_count)
            /\ wr_packet_count' = Succ(wr_packet_count)
       ELSE UNCHANGED <<wr_wire, wr_packet_count>>
    /\ UNCHANGED <<wr_sender, wr_delivered, wr_expected_packet,
                   wr_jitter_buffer, wr_jitter_buffer_size, wr_packets_late,
                   wr_released>>
    /\ UNCHANGED wr_others

\* a peer whose sequence field is the u32 of the wire format: the
\* datagrams recvfrom can return once the number has wrapped
WrPeerSend ==
    /\ wr_sender = "u32_peer"
    /\ wr_attempts < MaxWrapSends
    /\ wr_attempts' = wr_attempts + 1
    /\ wr_wire' = Append(wr_wire, wr_packet_count)
    /\ wr_packet_count' =
           IF wr_packet_count = U32Max THEN <<0, 0>> ELSE Succ(wr_packet_count)
    /\ UNCHANGED <<wr_sender, wr_delivered, wr_expected_packet,
                   wr_jitter_buffer, wr_jitter_buffer_size, wr_packets_late,
                   wr_released>>
    /\ UNCHANGED wr_others

\* receiver_zero_loss.py receive_packets, one datagram, in sending order
WrReceivePackets ==
    /\ wr_delivered < Len(wr_wire)
    /\ wr_delivered' = wr_delivered + 1
    /\ LET packet_count == wr_wire[wr_delivered + 1] IN
       IF Less(packet_count, wr_expected_packet)
       THEN /\ wr_packets_late' = wr_packets_late + 1
            /\ UNCHANGED wr_jitter_buffer
       ELSE /\ wr_jitter_buffer' = wr_jitter_buffer \cup {packet_count}
            /\ UNCHANGED wr_packets_late
    /\ UNCHANGED <<wr_sender, wr_packet_count, wr_attempts, wr_wire,
                   wr_expected_packet, wr_jitter_buffer_size, wr_released>>
    /\ UNCHANGED wr_others

\* receiver_zero_loss.py process_jitter_buffer, one pass that changes
\* something: release of the expected packet or concession of it, then the
\* adaptive sizing
WrProcessJitterBuffer ==
    LET found == wr_expected_packet \in wr_jitter_buffer
        conceded == ~found /\ Cardinality(wr_jitter_buffer) > wr_jitter_buffer_size
        left == wr_jitter_buffer \ {wr_expected_packet}
        size == IF Cardinality(left) > wr_jitter_buffer_size
                THEN IF wr_jitter_buffer_size < max_jitter_buffer
                     THEN wr_jitter_buffer_size + 1
                     ELSE wr_jitter_buffer_size
                ELSE IF left = {} /\ wr_jitter_buffer_size > min_jitter_buffer
                     THEN wr_jitter_buffer_size - 1
                     ELSE wr_jitter_buffer_size
    IN  /\ found \/ conceded \/ size # wr_jitter_buffer_size
        /\ wr_jitter_buffer' = left
        /\ wr_released' = IF found THEN Append(wr_released, wr_expected_packet)
                          ELSE wr_released
        /\ wr_expected_packet' = IF found \/ conceded
                                 THEN Succ(wr_expected_packet)
                                 ELSE wr_expected_packet
        /\ wr_jitter_buffer_size' = size
        /\ UNCHANGED <<wr_sender, wr_packet_count, wr_attempts, wr_wire,
                       wr_delivered, wr_packets_late>>
        /\ UNCHANGED wr_others

InitWrapAround ==
    /\ InitReceiver
    /\ script = <<>>
    /\ TrackerIdle
    /\ CodecIdle
    /\ zl_parse_out = Pending
    /\ InitRcv
    /\ InitEnh
    /\ InitSender
    /\ InitZeroLossSender
    /\ InitSessions
    /\ InitLifecycle
    /\ InitCallbacks
    /\ InitCongestion
    /\ InitLoops
    /\ \E sender \in {"sender_zero_loss", "sender", "u32_peer"} :
          InitWrapOf(sender)

NextWrapAround ==
    \/ WrSendFrame
    \/ WrAudioCallback
    \/ WrPeerSend
    \/ WrReceivePackets
    \/ WrProcessJitterBuffer

SpecWrapAround == InitWrapAround /\ [][NextWrapAround]_vars

\* =========================================================================
\* Specifications
\* =========================================================================
\* Spec: the zero-loss receiver under an arbitrary network.
Init ==
    /\ InitReceiver
    /\ script = <<>>
    /\ TrackerIdle
    /\ CodecIdle
    /\ MoreIdle

Next ==
    \/ RxRecvAny
    \/ RxCheckLate
    \/ RxAdmit
    \/ JbCheck
    \/ JbRelease
    \/ JbMissing
    \/ JbAdvance
    \/ JbAdapt

Spec == Init /\ [][Next]_vars

\* The zero-loss receiver under a scripted network.
NextScripted ==
    \/ RxRecvScripted
    \/ RxCheckLate
    \/ RxAdmit
    \/ JbCheck
    \/ JbRelease
    \/ JbMissing
    \/ JbAdvance
    \/ JbAdapt

RECURSIVE Ascending(_, _)
\* the datagrams of the sequence numbers of S from lo upwards, in order
Ascending(S, lo) ==
    IF \A s \in S : s < lo THEN <<>>
    ELSE IF lo \in S THEN <<Dgram(lo)>> \o Ascending(S, lo + 1)
    ELSE Ascending(S, lo + 1)

\* SpecLoss: the sender emits 1..LossN, the network drops a subset and
\* delivers the rest in increasing order.
InitLoss ==
    /\ InitReceiver
    /\ \E dropped \in SUBSET (1..LossN) :
          script = Ascending((1..LossN) \ dropped, 1)
    /\ TrackerIdle
    /\ CodecIdle
    /\ MoreIdle

SpecLoss == InitLoss /\ [][NextScripted]_vars

\* SpecGap: packets 1, 2, 4, 5 arrive, 3 never does; the target depth is
\* the scenario's 2, or the depth the constructor sets.
GapTargetDepth == 2
InitGap ==
    /\ \E depth \in {GapTargetDepth, initial_jitter_buffer_size} :
          InitReceiverWith(depth)
    /\ script = <<Dgram(1), Dgram(2), Dgram(4), Dgram(5)>>
    /\ TrackerIdle
    /\ CodecIdle
    /\ MoreIdle

SpecGap == InitGap /\ [][NextScripted]_vars

\* SpecBurst: a burst of max_jitter_buffer + 2 consecutive packets, the
\* first packet of the stream missing.
InitBurst ==
    /\ InitReceiver
    /\ script = Ascending(2..(max_jitter_buffer + 3), 1)
    /\ TrackerIdle
    /\ CodecIdle
    /\ MoreIdle

SpecBurst == InitBurst /\ [][NextScripted]_vars

\* SpecTracker: the sequence tracker of reciever.py on a stream whose
\* payloads all decode, or all fail to decode.
InitTrackerSpec ==
    /\ InitReceiver
    /\ script = <<>>
    /\ InitTracker
    /\ payloads_decode \in BOOLEAN
    /\ CodecIdle
    /\ MoreIdle

NextTracker == TrkRecvFresh \/ TrkRecvRepeat

SpecTracker == InitTrackerSpec /\ [][NextTracker]_vars

\* SpecCodec: one datagram framed by the sender and parsed by the receiver.
InitCodecSpec ==
    /\ InitReceiver
    /\ script = <<>>
    /\ TrackerIdle
    /\ InitCodec
    /\ MoreIdle

NextCodec == SenderPack \/ ReceiverParse

SpecCodec == InitCodecSpec /\ [][NextCodec]_vars

\* SpecMalformed: one datagram, built by the sender and then truncated or
\* padded by up to MaxDeform bytes on the way, is read by each of the three
\* receive paths.
MaxDeform == 3

Deform(packet, d) ==
    IF d < 0 THEN SubSeq(packet, 1, Len(packet) + d)
    ELSE packet \o [i \in 1..d |-> 0]

MalformedSeqSamples == {1, 256}
MalformedTimestampSamples == {0, 65537}

InitMalformed ==
    /\ InitReceiver
    /\ script = <<>>
    /\ TrackerIdle
    /\ codec_pc = "packed"
    /\ codec_in \in [seq : MalformedSeqSamples, ts : MalformedTimestampSamples,
                     payload : PayloadSamples]
    /\ \E d \in -MaxDeform..MaxDeform :
          codec_packet = Deform(BuildPacket(codec_in.seq, codec_in.ts, codec_in.payload), d)
    /\ codec_out = ParsedNone
    /\ MoreIdle

NextMalformed == ReceiverParse \/ ZlParse \/ RcvReceiveUnderTest

SpecMalformed == InitMalformed /\ [][NextMalformed]_vars

\* SpecEnhanced: one datagram framed by the sender and read by the live
\* receive path of reciever.py.
NextEnhanced == SenderPack \/ EnhReceiveUnderTest

SpecEnhanced == InitCodecSpec /\ [][NextEnhanced]_vars

\* SpecFirst: a session whose first (and only) datagram carries sequence
\* number s, received by each of the three receivers.
InitFirst ==
    /\ InitReceiver
    /\ \E s \in Seqs : script = <<Dgram(s)>>
    /\ InitTracker
    /\ payloads_decode \in BOOLEAN
    /\ CodecIdle
    /\ MoreIdle

NextFirst == NextScripted \/ TrkRecvScripted \/ RcvReceiveScripted

SpecFirst == InitFirst /\ [][NextFirst]_vars

\* SpecOrder: the two sequence trackers on every arrival order of up to
\* MaxOrderLen datagrams with sequence numbers 0..MaxOrderSeq; payloads may
\* fail to decode and receiver.py may also get a stray short datagram.
MaxOrderLen == 3
MaxOrderSeq == 3

InitOrder ==
    /\ InitReceiver
    /\ \E n \in 1..MaxOrderLen : \E f \in [1..n -> 0..MaxOrderSeq] :
          script = [i \in 1..n |-> Dgram(f[i])]
    /\ InitTracker
    /\ payloads_decode \in BOOLEAN
    /\ CodecIdle
    /\ MoreIdle

NextOrder == TrkRecvScripted \/ RcvReceiveScripted \/ RcvReceiveRunt

SpecOrder == InitOrder /\ [][NextOrder]_vars

\* SpecRetry: sender.py with send_with_retry called with retries drawn
\* from 0..MaxRetries.
MaxRetries == 3

InitRetry ==
    /\ InitReceiver
    /\ script = <<>>
    /\ TrackerIdle
    /\ CodecIdle
    /\ zl_parse_out = Pending
    /\ InitRcv
    /\ InitEnh
    /\ LateIdle
    /\ InitZeroLossSender
    /\ \E retries \in 0..MaxRetries : InitSenderWith("idle", retries)

SpecRetry == InitRetry /\ [][NextSender]_vars

\* SpecPacing: one of the two senders is started (the other stays "off",
\* streaming = False), configured as shipped (retries = 3) and fed by a
\* capture source delivering one frame every SourcePeriod ticks.
NextPacing ==
    \/ SnAudioCallback
    \/ SnLoopSend
    \/ SnLoopBreak
    \/ SwAttemptOk
    \/ SwAttemptFails
    \/ SnAfterSend
    \/ NextZeroLossSender

InitPacing ==
    /\ InitReceiver
    /\ script = <<>>
    /\ TrackerIdle
    /\ CodecIdle
    /\ zl_parse_out = Pending
    /\ InitRcv
    /\ InitEnh
    /\ LateIdle
    /\ \/ InitSender /\ InitZeroLossSenderAt("off")
       \/ InitSenderWith("off", default_retries) /\ InitZeroLossSender

SpecPacing == InitPacing /\ [][NextPacing]_vars

\* SpecOverflow: the zero-loss receiver while the output stream takes
\* nothing from the playback queue (the threads are started before the
\* stream is). Packets 1..OverflowPrefill have arrived one by one and each
\* was released at once; OverflowRun more packets follow, the third of them
\* lost or not.
OverflowPrefill == 19
OverflowRun == 7
InitOverflow ==
    /\ jitter_buffer = <<>>
    /\ jitter_buffer_size = min_jitter_buffer
    /\ expected_packet = OverflowPrefill + 1
    /\ last_played_packet = OverflowPrefill
    /\ playback_queue =
           [i \in 1..OverflowPrefill |-> decode_audio(Dgram(i).payload, TRUE)]
    /\ packets_received = OverflowPrefill
    /\ packets_lost = 0
    /\ packets_late = 0
    /\ packets_duplicate = 0
    /\ rx_pc = "recvfrom"
    /\ rx_packet = NoPacket
    /\ jb_pc = "check"
    /\ slot_log = [i \in 1..OverflowPrefill |-> [seq |-> i, how |-> "played"]]
    /\ admitted = 1..OverflowPrefill
    /\ reorder = {}
    /\ rx_copy_of_released = FALSE
    /\ rx_seen = <<0, 0>>
    /\ \E dropped \in SUBSET {OverflowPrefill + 3} :
          script = Ascending((1..(OverflowPrefill + OverflowRun)) \ dropped, 1)
    /\ TrackerIdle
    /\ CodecIdle
    /\ MoreIdle

SpecOverflow == InitOverflow /\ [][NextScripted]_vars

\* SpecRender: each receiver takes a short stream while its output stream
\* calls the render callback, before, between and after the arrivals.
MaxRenderLen == 2
InitRender ==
    /\ InitReceiver
    /\ \E n \in 0..MaxRenderLen : script = Ascending(1..n, 1)
    /\ InitTracker
    /\ payloads_decode = TRUE
    /\ CodecIdle
    /\ MoreIdle

NextRender ==
    \/ NextScripted
    \/ TrkRecvScripted
    \/ ZlAudioCallback
    \/ RcAudioCallback

SpecRender == InitRender /\ [][NextRender]_vars

\* SpecStop: each program, with a stream in progress, is stopped.
InitStop ==
    /\ InitReceiver
    /\ script = <<>>
    /\ TrackerIdle
    /\ CodecIdle
    /\ MoreIdle

SpecStop == InitStop /\ [][NextStop]_vars

\* SpecRestart: one of the two programs has a session in progress (the
\* other is stopped and is not started again); the session runs, is
\* stopped, and the program is started again. The zero-loss receiver takes a stream of up to
\* MaxRestartLen packets, the first one lost or not.
MaxRestartLen == 3
InitRestart ==
    /\ InitReceiver
    /\ \E n \in 1..MaxRestartLen, first \in {1, 2} :
          script = Ascending(first..n, 1)
    /\ TrackerIdle
    /\ CodecIdle
    /\ zl_parse_out = Pending
    /\ InitRcv
    /\ InitEnh
    /\ InitZeroLossSender
    /\ InitCallbacks
    /\ InitLifecycle
    /\ InitCongestion
    /\ InitLoops
    /\ InitWrap
    /\ \/ /\ zl_receiving = TRUE /\ zl_sessions = 1
          /\ sn_sessions = MaxSessions /\ InitSenderWith("off", default_retries)
       \/ /\ zl_receiving = FALSE /\ zl_sessions = MaxSessions
          /\ sn_sessions = 1 /\ InitSender

NextRestart ==
    \/ NextScripted
    \/ ZlAudioCallback
    \/ ZlStopReceiving
    \/ ZlStartReceiving
    \/ SnAudioCallback
    \/ SnLoopSend
    \/ SnLoopBreak
    \/ SwAttemptOk
    \/ SwAttemptFails
    \/ SnAfterSend
    \/ SnStopStreaming
    \/ SnStartStreaming

SpecRestart == InitRestart /\ [][NextRestart]_vars

\* SpecStall: the first packet of the stream never arrives, 1..MaxStallLen
\* later packets do, and nothing arrives after them. Both threads of the
\* zero-loss receiver keep running: their loops take a step whenever one
\* is possible.
MaxStallLen == 4
InitStall ==
    /\ InitReceiver
    /\ \E n \in 1..MaxStallLen : script = Ascending(2..(n + 1), 1)
    /\ TrackerIdle
    /\ CodecIdle
    /\ MoreIdle

\* One step of the jitter thread, of the receive thread
JbStep == JbCheck \/ JbRelease \/ JbMissing \/ JbAdvance \/ JbAdapt
RxStep == RxRecvScripted \/ RxCheckLate \/ RxAdmit

SpecStall ==
    /\ InitStall
    /\ [][NextScripted]_vars
    /\ WF_vars(JbStep)
    /\ WF_vars(RxStep)

\* SpecCompaction: the tracker of reciever.py on a stream numbered from 1
\* whose payloads decode; packet 0 may arrive late, at any point, and the
\* highest-numbered packet may arrive twice.
InitCompaction ==
    /\ InitReceiver
    /\ script = <<>>
    /\ received_sequences = {}
    /\ last_sequence = <<>>
    /\ duplicate_packets = 0
    /\ out_of_order_packets = 0
    /\ lost_packets = 0
    /\ self_packet_count = 0
    /\ audio_queue = <<>>
    /\ next_fresh = 1
    /\ payloads_decode = TRUE
    /\ CodecIdle
    /\ MoreIdle

NextCompaction == TrkRecvFresh \/ TrkRecvStraggler \/ TrkRecvCopyOfHighest

SpecCompaction == InitCompaction /\ [][NextCompaction]_vars

\* =========================================================================
\* Claims
\* =========================================================================
ConcededHow == {"concealed", "conceded_unqueued"}
PoppedHow == {"played", "queue_full", "undecodable"}

\* Index of the slot_log entry that popped sequence s (0 when none).
PoppedAt(s) ==
    IF \E i \in 1..Len(slot_log) : slot_log[i].seq = s /\ slot_log[i].how \in PoppedHow
    THEN CHOOSE i \in 1..Len(slot_log) : slot_log[i].seq = s /\ slot_log[i].how \in PoppedHow
    ELSE 0

Conceded(s) ==
    \E i \in 1..Len(slot_log) : slot_log[i].seq = s /\ slot_log[i].how \in ConcededHow

AllDecoded == \A i \in 1..Len(slot_log) : slot_log[i].how # "undecodable"

\* The scripted network has delivered everything and process_jitter_buffer
\* can make no further progress: every further cycle sleeps.
Quiescent ==
    /\ packets_received = Len(script)
    /\ rx_pc = "recvfrom"
    /\ jb_pc = "check"
    /\ expected_packet \notin DOMAIN jitter_buffer
    /\ ~WaitedLongEnough
    /\ AdaptedSize = jitter_buffer_size

\* C1: the sequence numbers of the frames process_jitter_buffer pops from
\* jitter_buffer and hands on are strictly increasing, none released twice.
C1_ReleasedStrictlyIncreasing ==
    \A i, j \in 1..Len(slot_log) :
        (i < j /\ slot_log[i].how \in PoppedHow /\ slot_log[j].how \in PoppedHow)
            => slot_log[i].seq < slot_log[j].seq

\* C1 witness: two frames were released around a conceded gap while a late
\* or duplicate datagram was dropped.
C1_Witness ==
    /\ Cardinality({i \in 1..Len(slot_log) : slot_log[i].how = "played"}) >= 2
    /\ \E i \in 1..Len(slot_log) : slot_log[i].how \in ConcededHow
    /\ packets_late + packets_duplicate >= 1

\* C2: once sequence s was conceded as lost, no decoded frame for s is put
\* on the playback queue afterwards.
C2_ConcededNeverReleased ==
    /\ \A i, j \in 1..Len(slot_log) :
          (i < j /\ slot_log[i].how \in ConcededHow)
              => ~(slot_log[j].how = "played" /\ slot_log[j].seq = slot_log[i].seq)
    /\ \A i \in 1..Len(slot_log), q \in 1..Len(playback_queue) :
          (slot_log[i].how \in ConcededHow /\ playback_queue[q].src = slot_log[i].seq)
              => playback_queue[q].kind = "silence"

\* C2 witness: the packet of a conceded sequence arrived all the same and
\* sits in the jitter buffer, and the jitter thread went on to release a
\* later frame.
C2_Witness ==
    \E i, j \in 1..Len(slot_log) :
        /\ i < j
        /\ slot_log[i].how \in ConcededHow
        /\ slot_log[i].seq \in DOMAIN jitter_buffer
        /\ slot_log[j].how = "played"

\* C3: a packet whose sequence number was already released or conceded never
\* re-enters the buffer: jitter_buffer holds no key smaller than
\* expected_packet.
C3_NoKeyBelowExpected ==
    \A k \in DOMAIN jitter_buffer : k >= expected_packet

\* C4: the number of entries of jitter_buffer never exceeds the configured
\* maximum depth max_jitter_buffer.
C4_BufferWithinMaxDepth ==
    Len_jitter_buffer <= max_jitter_buffer

\* C5: received_sequences never holds more than its compaction bound, at most
\* cleanup_threshold + 1 entries at any instant.
C5_SequenceWindowBounded ==
    Cardinality(received_sequences) <= cleanup_threshold + 1

\* C6: with the packets of 1..LossN outside the dropped set L admitted in
\* increasing order and all decoding, once process_jitter_buffer can make no
\* further progress packets_lost is the number of members of L below
\* expected_packet, and packets_lost never exceeds |L|.
DroppedSet == (1..LossN) \ {script[i].seq : i \in 1..Len(script)}
C6_LossCountEqualsDropped ==
    AllDecoded =>
        /\ packets_lost <= Cardinality(DroppedSet)
        /\ Quiescent =>
              packets_lost = Cardinality({s \in DroppedSet : s < expected_packet})

\* C7: packets 1, 2, 4, 5 arrive and 3 never does: once nothing more arrives
\* and the processing loop has run, the playback queue was handed the decoded
\* frames 1 and 2, one concealment frame for 3, then the decoded frames 4 and
\* 5, and the loss counter is 1.
C7_GapScenarioFiveFrames ==
    (Quiescent /\ AllDecoded) =>
        /\ playback_queue = <<[kind |-> "decoded", src |-> 1],
                              [kind |-> "decoded", src |-> 2],
                              [kind |-> "silence", src |-> 3],
                              [kind |-> "decoded", src |-> 4],
                              [kind |-> "decoded", src |-> 5]>>
        /\ packets_lost = 1

\* C8: if packet n+1 is admitted before packet n and n is admitted while
\* expected_packet <= n, the two are released in the order n then n+1 and
\* no loss is recorded for either.
C8_ReorderedPairReleasedInOrder ==
    \A n \in reorder :
        /\ ~Conceded(n)
        /\ ~Conceded(n + 1)
        /\ PoppedAt(n + 1) # 0 => (PoppedAt(n) # 0 /\ PoppedAt(n) < PoppedAt(n + 1))

\* C9: a second copy of a packet that arrives after its sequence number was
\* released is dropped, and packets_duplicate increases by exactly 1.
C9_CopyOfReleasedCountedDuplicate ==
    (rx_copy_of_released /\ rx_pc = "recvfrom") =>
        /\ rx_packet.seq \notin DOMAIN jitter_buffer
        /\ packets_duplicate = rx_seen[2] + 1
        /\ packets_late = rx_seen[1]

\* C10: parsing the datagram the sender built returns the same sequence,
\* timestamp, payload length and payload.
C10_FramingRoundTrip ==
    codec_pc = "parsed" =>
        codec_out = [packet_count |-> codec_in.seq,
                     timestamp |-> codec_in.ts,
                     opus_length |-> Len(codec_in.payload),
                     opus_data |-> codec_in.payload]

\* C10 witness: a datagram with a sequence number above 2^24, a timestamp
\* above 2^16 and a non-empty payload was parsed.
C10_Witness ==
    /\ codec_pc = "parsed"
    /\ codec_in.seq > 16777216
    /\ codec_in.ts > 65536
    /\ Len(codec_in.payload) = MaxPayloadLen
    /\ codec_out # ParsedNone

\* The datagram is shorter than the header, or its declared payload length
\* differs from the datagram length minus 16.
Malformed(packet) ==
    \/ Len(packet) < 16
    \/ UnpackLQL(Slice(packet, 0, 16))[3] # Len(packet) - 16

\* C11: every receive path rejects a datagram that is shorter than 16 bytes
\* or whose declared payload length differs from its length minus 16:
\* parse_udp_packet returns None, the zero-loss receiver extracts nothing,
\* and receiver.py neither decodes nor queues anything.
C11_MalformedRejectedEverywhere ==
    Malformed(codec_packet) =>
        /\ codec_pc = "parsed" => codec_out = ParsedNone
        /\ zl_parse_out # Pending => zl_parse_out = ParsedNone
        /\ \A i \in 1..Len(rcv_log) : rcv_log[i].outcome = "short"
        /\ rcv_audio_queue = <<>>

\* C12: the bytes the live receive path of reciever.py hands to the decoder
\* are exactly the sender's payload, the datagram from offset 16 on.
C12_DecoderGetsSenderPayload ==
    \A i \in 1..Len(enh_handed) : enh_handed[i] = codec_in.payload

\* C13: the first packet of a session is accepted as the first packet
\* whatever its sequence number s: the next expected sequence becomes s + 1
\* and no loss, late or duplicate event is recorded for it. For the two
\* trackers the next expected sequence is last_sequence + 1; the jitter
\* buffer expects s while s is buffered and s + 1 once s is released.
C13_FirstPacketAccepted ==
    LET s == script[1].seq
    IN  /\ (packets_received = 1 /\ rx_pc = "recvfrom") =>
              /\ packets_late = 0
              /\ packets_duplicate = 0
              /\ packets_lost = 0
              /\ expected_packet =
                     IF PoppedAt(s) # 0 /\ jb_pc # "advance" THEN s + 1 ELSE s
        /\ TrkHandled = 1 =>
              /\ last_sequence = <<s>>
              /\ lost_packets = 0
              /\ out_of_order_packets = 0
              /\ duplicate_packets = 0
        /\ Len(rcv_log) = 1 =>
              /\ rcv_last_sequence = s
              /\ rcv_lost_packets = 0

\* C14: in the sequence tracking of reciever.py and of receiver.py no packet
\* decreases the next expected sequence, last_sequence + 1: over any arrival
\* order it is non-decreasing.
C14_NextExpectedNonDecreasing ==
    [][/\ (last_sequence # <<>> /\ last_sequence' # <<>>)
            => last_sequence'[1] + 1 >= last_sequence[1] + 1
       /\ rcv_last_sequence # -1
            => rcv_last_sequence' + 1 >= rcv_last_sequence + 1]_vars

\* C15: when decode_audio returns None for the expected packet, the slot is
\* treated as lost: a concealment frame for that sequence is on the playback
\* queue, the loss counter counts it, and expected_packet moves past it.
C15_DecodeFailureConcealed ==
    /\ \A i \in 1..Len(slot_log) :
          slot_log[i].how = "undecodable" =>
              /\ \E q \in 1..Len(playback_queue) :
                    playback_queue[q] = SilenceFrame(slot_log[i].seq)
              /\ (i < Len(slot_log) \/ jb_pc # "advance")
                    => expected_packet > slot_log[i].seq
    /\ packets_lost =
          Cardinality({i \in 1..Len(slot_log) :
                          slot_log[i].how \in ConcededHow \cup {"undecodable"}})

\* C16: a malformed datagram or an undecodable payload is never fatal to
\* reception: while the running flag is set (it is never cleared here) the
\* receive loop is still running after such a packet, so that a valid
\* packet arriving afterwards is processed. Stated for receiver.py; in this
\* model the loops of reciever.py and receiver_zero_loss.py have no exit.
C16_ReceiveLoopSurvives ==
    rcv_loop = "running"

\* C17: send_with_retry makes at most `retries` send attempts whatever the
\* socket does; it returns True exactly when an attempt put the packet on
\* the wire; when every attempt failed it returns False having recorded
\* each failure in send_errors, and the dropped packet is never sent later.
C17_SendWithRetryBounded ==
    /\ sw_attempt <= sw_retries
    /\ (sw_result = "True") <=> (sn_frame \in sn_wire)
    /\ sw_result = "True" => sn_send_errors - sw_errors_before = sw_attempt - 1
    /\ sw_result = "False" =>
           /\ sw_attempt = sw_retries
           /\ sn_send_errors - sw_errors_before = sw_retries
           /\ sn_frame \in sn_dropped
    /\ sn_dropped \cap sn_wire = {}

C17_Witness ==
    /\ sw_result = "False"
    /\ sw_retries >= 2
    /\ sw_attempt = sw_retries
    /\ sn_send_errors > sw_retries
    /\ sn_wire # {}

\* next_send_time is its first value plus one frame interval for each
\* frame handed to send_with_retry (sender.py) or send_frame
\* (sender_zero_loss.py)
SnOnSchedule ==
    sn_next_send_time = sn_first_send_time + sn_attempted * sn_frame_interval

TzOnSchedule ==
    tz_next_send_time = tz_start + tz_attempted * tz_frame_interval

\* C18: in both senders next_send_time has advanced by exactly one frame
\* interval for each attempted send of a frame, whether the send succeeded
\* or failed after its retries: it equals its first value plus the number
\* of attempted sends times the frame interval.
C18_AdvancesPerAttempt ==
    /\ SnOnSchedule
    /\ TzOnSchedule

C18_Witness ==
    /\ sn_dropped # {}
    /\ sn_pc = "loop"
    /\ sn_attempted > Cardinality(sn_dropped)

\* Frames the sender gave to the network layer and lost to a send failure
SnLost == Cardinality(sn_dropped)
TzLost == tz_send_errors

\* The sender has nothing left to do at the current time
SnSettled == sn_pc = "idle" /\ sn_first_send_time # 0
TzSettled == tz_pc = "running" /\ tz_now < tz_next_send_time

\* C19: with a capture source faster than one frame per frame interval the
\* schedule does not drift: whenever a sender has done its work for the
\* current time t, the number of packets sent since the first send at t0
\* is (t - t0) / frame_interval to within one packet, frames lost to a
\* failing send aside.
C19_NoDrift ==
    /\ SnSettled =>
           /\ (sn_packets_sent - 1) * sn_frame_interval <= sn_now - sn_first_send_time
           /\ sn_now - sn_first_send_time < (sn_packets_sent + SnLost + 1) * sn_frame_interval
    /\ TzSettled =>
           /\ (tz_packets_sent - 1) * tz_frame_interval <= tz_now - tz_start
           /\ tz_now - tz_start < (tz_packets_sent + TzLost) * tz_frame_interval

C19_Witness ==
    /\ SnSettled
    /\ sn_packets_sent >= 8
    /\ sn_buffer_underruns > 0
    /\ sn_dropped # {}

\* The frame the jitter thread offered to the playback queue last
LastOffered == slot_log[Len(slot_log)]

\* C20: a bridge queue resolves overflow by dropping its oldest frame: the
\* frame offered last to the playback queue of receiver_zero_loss.py (a
\* decoded frame from process_jitter_buffer, silence from
\* handle_packet_loss) is the newest frame in the queue, and the queue
\* never holds more than its capacity.
C20_NewestFrameEnqueued ==
    /\ Len(playback_queue) <= playback_queue_maxsize
    /\ (slot_log # <<>> /\ LastOffered.how # "undecodable") =>
           /\ playback_queue # <<>>
           /\ playback_queue[Len(playback_queue)].src = LastOffered.seq

C20_Witness ==
    /\ Len(playback_queue) = playback_queue_maxsize
    /\ slot_log # <<>>
    /\ LastOffered.how = "conceded_unqueued"

\* C21: a render call that finds its queue empty returns, in that call, a
\* block of silence (receiver_zero_loss.py) or of silence or concealment
\* (reciever.py) and adds exactly 1 to buffer_underruns, however many such
\* calls came before.
C21_EmptyQueueCallReturnsSilence ==
    /\ zl_found_empty =>
           /\ zl_outdata = ZeroBlock
           /\ zl_buffer_underruns = zl_underruns_before + 1
    /\ rc_found_empty =>
           /\ rc_outdata.kind \in {"zeros", "concealment"}
           /\ rc_buffer_underruns = rc_underruns_before + 1

C21_Witness ==
    /\ zl_found_empty
    /\ zl_buffer_underruns >= 3
    /\ rc_found_empty
    /\ rc_outdata.kind = "concealment"
    /\ rc_underruns_before >= 2

\* C22: on stream stop the running flag is cleared first, the worker
\* threads are joined next and the socket is closed last: in no program is
\* the socket closed while the flag is still set or while a thread that uses
\* the socket is still running.
C22_SocketClosedAfterJoins ==
    \A p \in Programs :
        lc_sock[p] = "closed" =>
            /\ ~lc_flag[p]
            /\ \A t \in SocketUsers(p) : lc_thread[p][t] = "exited"

C22_Witness ==
    /\ lc_sock["receiver_zero_loss"] = "closed"
    /\ lc_thread["receiver_zero_loss"]["rx_thread"] = "running"
    /\ lc_sock["sender_zero_loss"] = "closed"
    /\ lc_thread["sender_zero_loss"]["tx_thread"] = "exited"

\* The per-session state of receiver_zero_loss.py at its initial values
ZlSessionStateInitial ==
    /\ packets_received = 0
    /\ packets_lost = 0
    /\ packets_late = 0
    /\ packets_duplicate = 0
    /\ zl_buffer_underruns = 0
    /\ expected_packet = 1
    /\ last_played_packet = 0
    /\ jitter_buffer = <<>>
    /\ jitter_buffer_size = initial_jitter_buffer_size
    /\ playback_queue = <<>>

\* The per-session state of sender.py at its initial values
SnSessionStateInitial ==
    /\ sn_packet_count = 0
    /\ sn_packets_sent = 0
    /\ sn_send_errors = 0
    /\ sn_next_send_time = 0
    /\ sn_audio_buffer = 0

\* C23: a (re)start leaves every per-session state variable at its initial
\* value: the step that sets receiving (receiver_zero_loss.py), and the
\* step that sets streaming (sender.py), ends in a state where the
\* session state is as after construction, whatever the previous session
\* left behind.
C23_RestartResetsSessionState ==
    [][ /\ (~zl_receiving /\ zl_receiving') => ZlSessionStateInitial'
        /\ (sn_pc = "off" /\ sn_pc' = "idle") => SnSessionStateInitial' ]_vars

C23_Witness ==
    \/ /\ zl_sessions = 2
       /\ jitter_buffer_size # initial_jitter_buffer_size
       /\ packets_received = 0
    \/ /\ sn_sessions = 2
       /\ sn_packets_sent > 0
       /\ sn_packet_count = 0
       /\ sn_pc = "idle"

\* Every packet of the stream has arrived and been admitted or refused, the
\* packet for expected_packet is not in the buffer, a later one is
Stalled ==
    /\ packets_received = Len(script)
    /\ rx_pc = "recvfrom"
    /\ expected_packet \notin DOMAIN jitter_buffer
    /\ jitter_buffer # <<>>

\* C24: concealment needs no new arrival: when the expected packet never
\* arrives, the buffer holds a later packet and nothing more arrives, the
\* processing loop, running fairly, eventually gives the slot up and
\* releases every buffered packet.
C24_StalledSlotEventuallyConceded == Stalled ~> (jitter_buffer = <<>>)

C24_Witness ==
    /\ Stalled
    /\ jb_pc = "adapt"
    /\ Len_jitter_buffer <= jitter_buffer_size

\* C25: a cycle of process_jitter_buffer that found expected_packet absent
\* declares the slot lost (concealment handed to handle_packet_loss,
\* packets_lost + 1, then expected_packet + 1) exactly when the buffer
\* holds more than jitter_buffer_size entries; otherwise it leaves
\* expected_packet, the jitter buffer, the playback queue and packets_lost
\* as they were.
C25_MissingCycleEffect ==
    [][ /\ (jb_pc = "missing" /\ jb_pc' # "missing") =>
              IF Len_jitter_buffer > jitter_buffer_size
              THEN /\ jb_pc' = "advance"
                   /\ packets_lost' = packets_lost + 1
                   /\ slot_log' # slot_log
                   /\ slot_log'[Len(slot_log')].seq = expected_packet
                   /\ slot_log'[Len(slot_log')].how \in ConcededHow
                   /\ playback_queue' =
                          put_nowait(playback_queue, SilenceFrame(expected_packet))
                   /\ UNCHANGED <<expected_packet, jitter_buffer>>
              ELSE /\ jb_pc' = "adapt"
                   /\ UNCHANGED <<expected_packet, jitter_buffer,
                                  playback_queue, packets_lost, slot_log>>
        /\ (jb_pc = "advance" /\ jb_pc' # "advance") =>
              /\ expected_packet' = expected_packet + 1
              /\ UNCHANGED <<jitter_buffer, playback_queue, packets_lost>>
      ]_vars

C25_Witness ==
    /\ jb_pc = "adapt"
    /\ packets_lost >= 1
    /\ slot_log # <<>>
    /\ slot_log[Len(slot_log)].how = "concealed"
    /\ expected_packet = slot_log[Len(slot_log)].seq + 1
    /\ jitter_buffer # <<>>

\* C26: jitter_buffer_size stays within [min_jitter_buffer,
\* max_jitter_buffer] = [3, 10]; a step changes it by at most 1, raises it
\* only when the buffer holds more entries than it and lowers it only when
\* the buffer is empty.
C26_TargetDepthBoundedAndSteady ==
    /\ [](jitter_buffer_size >= min_jitter_buffer
            /\ jitter_buffer_size <= max_jitter_buffer)
    /\ [][ /\ jitter_buffer_size' - jitter_buffer_size \in {-1, 0, 1}
           /\ jitter_buffer_size' > jitter_buffer_size =>
                  Len_jitter_buffer > jitter_buffer_size
           /\ jitter_buffer_size' < jitter_buffer_size =>
                  Len_jitter_buffer = 0 ]_vars

C26_Witness ==
    /\ jitter_buffer_size = max_jitter_buffer
    /\ Len_jitter_buffer > jitter_buffer_size
    /\ jb_pc = "check"

\* C27: the frame put on the playback queue for a lost slot is derived
\* from the most recently released decoded frame; pure silence is queued
\* for a lost slot only when no decoded frame was released before it. (The
\* playback queue is not consumed here, so the frames queued before a
\* frame are the frames released before it.)
C27_ConcealmentReusesLastFrame ==
    \A q \in 1..Len(playback_queue) :
        playback_queue[q].kind = "silence" =>
            \A p \in 1..(q - 1) : playback_queue[p].kind # "decoded"

C27_Witness ==
    \E q \in 2..Len(playback_queue) :
        /\ playback_queue[q].kind = "silence"
        /\ playback_queue[q - 1].kind = "decoded"
        /\ packets_lost >= 1

\* C28: when receive_packets of reciever.py handles a packet whose
\* sequence number is already in received_sequences, duplicate_packets
\* grows by exactly 1 and last_sequence, lost_packets,
\* out_of_order_packets, received_sequences and the audio queue stay as
\* they were; a packet not yet in received_sequences is not counted as a
\* duplicate.
C28_DuplicateAdvancesNothing ==
    [][ tracker_vars' # tracker_vars =>
            LET packet_count == script[TrkHandled + 1].seq
            IN  IF packet_count \in received_sequences
                THEN /\ duplicate_packets' = duplicate_packets + 1
                     /\ UNCHANGED <<last_sequence, lost_packets,
                                    out_of_order_packets, received_sequences,
                                    audio_queue, self_packet_count>>
                ELSE /\ duplicate_packets' = duplicate_packets
                     /\ packet_count \in received_sequences' ]_vars

C28_Witness ==
    /\ Len(script) = 3
    /\ TrkHandled = 3
    /\ script[3].seq = script[1].seq
    /\ script[2].seq # script[1].seq
    /\ duplicate_packets = 1
    /\ audio_queue # <<>>

\* The sequence numbers accepted so far and the highest of them
AcceptedSoFar ==
    (1..(next_fresh - 1)) \cup (IF out_of_order_packets > 0 THEN {0} ELSE {})
HighWater == next_fresh - 1

\* C29: received_sequences retains every accepted sequence number less
\* than cleanup_window below the highest sequence number accepted so far,
\* whatever packet triggered a compaction, so that a second copy of such a
\* packet is still recognised as a duplicate.
C29_WindowOfHighWaterRetained ==
    \A s \in AcceptedSoFar :
        HighWater - s < cleanup_window => IsDuplicate(s)

C29_Witness ==
    /\ Cardinality(received_sequences) <= cleanup_window
    /\ 0 \in received_sequences
    /\ HighWater = cleanup_threshold
    /\ ~IsDuplicate(HighWater)

\* The trailing window of the timestamps recorded so far
TrailingWindow ==
    LET n == Len(cg_recorded)
        k == Min(n, send_timestamps_maxlen)
    IN  SubSeq(cg_recorded, n - k + 1, n)

\* The differences between consecutive timestamps of the window add up to
\* the last minus the first; their average exceeds 1.5 frame intervals when
\* twice that sum exceeds three frame intervals times their number.
WindowAverageTooSlow ==
    LET w == TrailingWindow
        n == Len(w)
    IN  /\ n >= 2
        /\ 2 * (w[n] - w[1]) > 3 * sn_frame_interval * (n - 1)

\* C30: a call of detect_network_congestion (sender.py) returns True exactly
\* when at least 10 timestamps are recorded and the average difference between
\* consecutive timestamps of the trailing window of at most 100 exceeds 1.5
\* times frame_interval; with fewer than 10 timestamps it returns False; and
\* network_congestion_events grows by 1 exactly when it returns True.
C30_CongestionFlaggedOnSlowAverage ==
    cg_pc = "send" =>
        /\ cg_flagged <=>
               (Len(cg_recorded) >= min_send_timestamps /\ WindowAverageTooSlow)
        /\ Len(cg_recorded) < min_send_timestamps => ~cg_flagged
        /\ cg_network_congestion_events =
               cg_events_before + (IF cg_flagged THEN 1 ELSE 0)

\* a call that flagged congestion on a full window out of which older
\* timestamps have been dropped, after calls that did not flag
C30_Witness ==
    /\ cg_pc = "send"
    /\ cg_flagged
    /\ Len(cg_recorded) > send_timestamps_maxlen
    /\ cg_network_congestion_events = 1

\* C31: a call of adaptive_send_timing (sender.py) reduces adaptive_delay only
\* when at least the cooldown (2 seconds) has passed since the latest call at
\* which congestion was detected.
C31_DecayOnlyAfterClearCooldown ==
    (cg_pc = "send" /\ cg_adaptive_delay < cg_delay_before) =>
        cg_now - cg_last_flagged_at > congestion_cooldown

\* a call that reduced the delay
C31_Witness ==
    /\ cg_pc = "send"
    /\ cg_adaptive_delay < cg_delay_before
    /\ cg_last_flagged_at >= 0

\* Sends that suffice for the cooldown to pass and the delay to decay below
\* the floor
DecayRoom == congestion_cooldown \div sn_frame_interval + 25

\* The congestion is over for good: sends are on time and the latest call
\* found at least 10 timestamps whose average is not too slow
CongestionOver ==
    /\ cg_pc = "send"
    /\ cg_phase = "cleared"
    /\ ~cg_flagged
    /\ Len(cg_send_timestamps) >= min_send_timestamps

DelaySettled == cg_adaptive_delay = 0 /\ ~cg_congestion_detected

\* C32: in sender.py adaptive_delay is never more than 1 ms and is 0 whenever
\* congestion_detected is False; and once congestion is no longer detected
\* while packets keep being sent, adaptive_delay becomes 0 and
\* congestion_detected False, and both stay so.
C32_DelayBoundedAndDecaysToZero ==
    /\ [](/\ cg_adaptive_delay >= 0
          /\ cg_adaptive_delay <= adaptive_delay_step
          /\ (~cg_congestion_detected => cg_adaptive_delay = 0))
    /\ (CongestionOver /\ cg_budget >= DecayRoom) ~> []DelaySettled

\* the delay is back at 0 after an episode of detected congestion
C32_Witness ==
    /\ DelaySettled
    /\ cg_network_congestion_events > 0
    /\ cg_delay_before > 0

\* Send deadlines of the transmission thread that have elapsed by time t
TzDeadlinesBy(t) == (t - tz_start) \div tz_frame_interval + 1

\* C33: in sender_zero_loss.py transmission_thread the calls of send_frame
\* are for the deadlines start, start + frame_interval, ... one call each and
\* in this order, whenever the capture callback comes; no call is made before
\* its deadline; a call made with nothing queued sends silence and a call
\* with a block queued sends that block; and when the thread waits for the
\* next deadline every deadline elapsed so far has had its call.
C33_OneSendPerElapsedDeadline ==
    /\ [](/\ \A i \in 1..Len(tz_log) :
                /\ tz_log[i].deadline = tz_start + (i - 1) * tz_frame_interval
                /\ tz_log[i].at >= tz_log[i].deadline
          /\ tz_pc = "running" => Len(tz_log) <= TzDeadlinesBy(tz_now)
          /\ (tz_pc = "running" /\ tz_now < tz_next_send_time) =>
                Len(tz_log) = TzDeadlinesBy(tz_now))
    /\ [][Len(tz_log') > Len(tz_log) =>
            /\ Len(tz_log') = Len(tz_log) + 1
            /\ tz_now >= tz_next_send_time
            /\ IF tz_audio_queue = <<>>
               THEN tz_log'[Len(tz_log')].frame = TzSilence
               ELSE /\ tz_log'[Len(tz_log')].frame = Head(tz_audio_queue)
                    /\ tz_log'[Len(tz_log')].frame # TzSilence]_vars

\* the thread has sent late, has sent silence at a deadline that found the
\* queue empty, has sent a captured block, and waits for the next deadline
C33_Witness ==
    /\ tz_pc = "running"
    /\ tz_now < tz_next_send_time
    /\ \E i \in 1..Len(tz_log) : tz_log[i].at > tz_log[i].deadline
    /\ \E i \in 2..Len(tz_log) : tz_log[i].frame = TzSilence
    /\ \E i \in 1..Len(tz_log) : tz_log[i].frame # TzSilence

\* Sequence numbers of the packets sender_zero_loss.py handed to the socket
\* without an exception, in order
TzIsSent(entry) == entry.outcome = "sent"
TzWireSeqs ==
    LET sent == SelectSeq(tz_log, TzIsSent)
    IN  [i \in 1..Len(sent) |-> sent[i].seq]

Consecutive(seqs) ==
    \A i \in 1..(Len(seqs) - 1) : seqs[i + 1] = seqs[i] + 1

\* C34: the sequence numbers of the packets a sender hands to the socket
\* successfully are consecutive, without gap or repeat, whatever send failures
\* occur in between, in sender.py and in sender_zero_loss.py.
C34_WireSequenceNumbersConsecutive ==
    /\ Consecutive(sn_wire_seqs)
    /\ Consecutive(TzWireSeqs)

\* a sender has sent a packet, failed to send, and sent again
C34_Witness ==
    \/ /\ Len(sn_wire_seqs) >= 2
       /\ sn_dropped # {}
       /\ \E f \in sn_dropped : \E a, b \in sn_wire : a < f /\ f < b
    \/ \E i, j, k \in 1..Len(tz_log) :
          /\ i < j /\ j < k
          /\ tz_log[i].outcome = "sent"
          /\ tz_log[j].outcome = "send_error"
          /\ tz_log[k].outcome = "sent"

\* C35: in sender_zero_loss.py, however audio_callback interleaves with the
\* dequeue of the transmission thread, the callback never returns without
\* having queued its block, and the block it queued is the newest entry of
\* audio_queue when it returns.
C35_CapturedBlockAlwaysQueued ==
    /\ [](tz_cb_dropped = {})
    /\ [][(tz_cb_pc' = "idle" /\ (tz_captured' > tz_captured \/ tz_cb_pc # "idle"))
             => /\ tz_audio_queue' # <<>>
                /\ tz_audio_queue'[Len(tz_audio_queue')] =
                       (IF tz_cb_pc = "idle" THEN tz_captured' ELSE tz_cb_block)]_vars

\* the callback has returned without queueing a block and the queue is empty
C35_Witness ==
    /\ tz_cb_dropped # {}
    /\ tz_cb_pc = "idle"
    /\ tz_audio_queue = <<>>

\* C36: in sender.py the accumulation buffer never holds more than 10 blocks
\* of chunk_size samples, however long sends are deferred or fail; a block
\* that would take it over the bound pushes out the oldest buffered samples
\* and adds 1 to buffer_underruns, and any other block is appended and leaves
\* buffer_underruns alone.
C36_AccumulationBufferBounded ==
    /\ [](/\ Len(sn_buffer_frames) <= sn_buffer_cap
          /\ sn_audio_buffer = Len(sn_buffer_frames))
    /\ [][sn_now' # sn_now =>
            IF Len(sn_buffer_frames) = sn_buffer_cap
            THEN /\ sn_buffer_frames' = Append(Tail(sn_buffer_frames), sn_now')
                 /\ sn_buffer_underruns' = sn_buffer_underruns + 1
            ELSE /\ sn_buffer_frames' = Append(sn_buffer_frames, sn_now')
                 /\ sn_buffer_underruns' = sn_buffer_underruns]_vars

\* the buffer is full after a callback that discarded the oldest frame
C36_Witness ==
    /\ sn_buffer_underruns > 0
    /\ Len(sn_buffer_frames) = sn_buffer_cap
    /\ sn_buffer_frames[1] > 1

\* C37: in receiver.py receive_packets the loss counter lost_packets is never
\* negative and no packet decreases it, whatever the arrival order.
C37_LossCounterMonotone ==
    /\ [](rcv_lost_packets >= 0)
    /\ [][rcv_lost_packets' >= rcv_lost_packets]_vars

\* a packet older than its predecessor has been processed
C37_Witness ==
    \E i \in 2..Len(rcv_log) :
        /\ rcv_log[i].outcome = "decoded"
        /\ rcv_log[i - 1].outcome = "decoded"
        /\ rcv_log[i].sequence <= rcv_log[i - 1].sequence

\* C38: once receiving / streaming is cleared, each of the loops
\* receive_packets and process_jitter_buffer (receiver_zero_loss.py) and
\* transmission_thread (sender_zero_loss.py) completes at most one more pass,
\* whatever way it takes through its body and whether the socket is open or
\* closed, and then exits.
C38_LoopsExitAfterFlagCleared ==
    /\ [](\A loop \in Loops : hl_after[loop] <= 1)
    /\ ~hl_flag["receiving"] ~> (hl_pc["receive_packets"] = "exited")
    /\ ~hl_flag["receiving"] ~> (hl_pc["process_jitter_buffer"] = "exited")
    /\ ~hl_flag["streaming"] ~> (hl_pc["transmission_thread"] = "exited")

\* all three loops have exited, receive_packets after a pass in which
\* recvfrom raised on the closed socket
C38_Witness ==
    /\ \A loop \in Loops : hl_pc[loop] = "exited"
    /\ hl_after["receive_packets"] = 1
    /\ hl_branch["receive_packets"] = "oserror"
    /\ hl_after["process_jitter_buffer"] = 1

\* C39: the sequence number wraps at 2^32. A sender that has emitted
\* 2^32 - 1 emits a packet for every further frame, the first of them with
\* sequence 0, and the jitter buffer of receiver_zero_loss.py classifies no
\* packet of an in-order stream as late and releases the packets in the
\* order they were sent, across the wrap
PacketAfter(i) == wr_wire[i + 1]

C39_SequenceWrapsAt2To32 ==
    /\ Len(wr_wire) = wr_attempts
    /\ \A i \in 1..(Len(wr_wire) - 1) :
          wr_wire[i] = U32Max => PacketAfter(i) = <<0, 0>>
    /\ wr_packets_late = 0
    /\ Len(wr_released) <= Len(wr_wire)
    /\ \A i \in 1..Len(wr_released) : wr_released[i] = wr_wire[i]

\* sender_zero_loss.py has sent 2^32 - 1, the receiver has released it, and
\* the frames that followed produced no packet
C39_Witness ==
    /\ wr_sender = "sender_zero_loss"
    /\ Len(wr_wire) = WrapLead
    /\ wr_wire[Len(wr_wire)] = U32Max
    /\ wr_released = wr_wire
    /\ wr_attempts = MaxWrapSends
    /\ ~PacksAsL(wr_packet_count)

====
